---- MODULE Spec2Model ----
(***************************************************************************)
(* A model of the sequence-generation and beam-search engine of blocks:    *)
(*   - blocks/search.py                    BeamSearch                      *)
(*   - blocks/bricks/sequence_generators.py BaseSequenceGenerator          *)
(*                                                                         *)
(* Arrays indexed by hypothesis are functions over 0..beam_size-1, rows of *)
(* the candidate matrix are functions over 0..vocab_size-1, as in numpy.   *)
(* Floating point values are the naturals (the finite costs), Inf for      *)
(* numpy.inf and NaN for the not-a-number produced by inf * 0.             *)
(***************************************************************************)
EXTENDS Integers, Sequences, FiniteSets, TLC

VARIABLES
    \* ---- BeamSearch instance (search.py:48-84) ----
    beam_size,        \* self.beam_size
    vocab_size,       \* number of columns the log-probability computer returns
    generator,        \* the kind of generator the search was built on
    has_initial_state, \* whether self.generator has the attribute
                      \* initial_state that line 92 calls (SequenceGenerator
                      \* defines initial_states only; a subclass may add it)
    compiled,         \* self.compiled
    computers,        \* the compiled functions the instance holds
    compile_call,     \* the outcome of the last call of compile()
    search_compiles,  \* how many times search() has called compile()
    \* ---- one call of search (search.py:232-307) ----
    pc,               \* "idle" | "loop" | "done" | "error"
    eol_symbol,       \* argument
    max_length,       \* argument
    i,                \* the loop variable: iterations completed so far
    states,           \* states[j]: the value of hypothesis j's recurrent state
    all_outputs,      \* sequence of rows; row 1 is the seeded initial row
    mask,             \* 1 while hypothesis j is active
    costs,            \* cumulative cost of hypothesis j
    indexes,          \* rows chosen by the last iteration (line 283)
    outputs,          \* columns chosen by the last iteration (line 283)
    parent_mask,      \* mask[indexes]  (line 290), before line 297
    parent_costs,     \* costs[indexes] (line 291), before line 296
    error_at,         \* the iteration in which an exception was raised, or -1
    ret,              \* the value search returned, or the empty record
    \* ---- one call of _smallest on its own (search.py:206-230) ----
    sm_pc,            \* "off" | "input" | "done" | "error"
    sm_rows,          \* matrix.shape[0]
    sm_cols,          \* matrix.shape[1]
    sm_k,             \* k
    sm_first,         \* only_first_row
    sm_matrix,        \* matrix
    sm_result,        \* the returned ((rows, columns), values)
    \* ---- a BaseSequenceGenerator unrolled by generate ----
    g_cfg,            \* the components the generator was built from
    g_step,           \* number of generate steps made
    g_in,             \* the keyword arguments of the last generate step
    g_cur,            \* the current values of generate.states
    g_calls,          \* the applications the last step made, in order
    g_ret,            \* the list the last step returned
    \* ---- one call of cost or evaluate on the generator ----
    python,           \* the major version of the interpreter: 2 | 3
    ev_pc,            \* "idle" | "done" | "error"
    ev_error,         \* the exception the call raised, "" if none
    ev_entry,         \* the method the caller called: "evaluate" | "cost"
    ev_outputs,       \* argument outputs: the target symbol of every time step
    ev_mask,          \* argument mask: [given |-> FALSE] or a binary matrix
    ev_given,         \* the keyword arguments the caller gave
    ev_kwargs,        \* the keyword arguments evaluate received
    ev_feedback,      \* feedback as given to the readout (lines 271-274)
    ev_states,        \* states as given to the readout (line 267)
    ev_glimpses,      \* glimpses as given to the readout (line 268)
    ev_readouts,      \* the readout of every time step (lines 284-286)
    ev_raw,           \* the numbers readout.cost returned (line 287)
    ev_costs,         \* the cost matrix evaluate returned (lines 287-289)
    ev_cost,          \* the value cost returned (line 237)
    ev_aux,           \* the per_sequence_element variable (lines 241-243)
    \* ---- the dimensions of a generator's components ----
    d_cfg,            \* the components the generator was built from
    d_attr,           \* the allocation attributes of the components
    d_call,           \* the last get_dim call and its answer
    d_pushes,         \* the push_allocation_config calls made, in order
    d_resolved,       \* the dimensions resolved by every push, in order
    d_feedback,       \* the last call of the feedback brick and its outcome
    \* ---- a SequenceGenerator's transition wrapper called on its own ----
    sg,               \* what SequenceGenerator.__init__ has built, if anything
    fa_call,          \* the last call on the wrapper and what it returned
    \* ---- an emitter called on its own ----
    em_call,          \* the last call on an emitter and what it returned
    \* ---- an Aggregator of the Mean scheme (aggregation.py:105-119) ----
    numerator_acc,    \* the shared variable numerator_acc
    denominator_acc,  \* the shared variable denominator_acc
    agg_log,          \* the updates run on the aggregator, in order
    \* ---- a JSONLinesLog inside its context (log/json.py:36-129) ----
    jl,               \* the log: inner logger, local_cache, rows and status
    jl_call,          \* the last call on the log and its outcome
    jl_hist           \* what the caller has written and read so far

\* what construction fixes
instVars == <<beam_size, vocab_size, generator, has_initial_state>>

beamVars == <<instVars, compiled, computers, compile_call, search_compiles,
              pc, eol_symbol, max_length, i, states, all_outputs, mask, costs,
              indexes, outputs, parent_mask, parent_costs, error_at, ret>>

smVars == <<sm_pc, sm_rows, sm_cols, sm_k, sm_first, sm_matrix, sm_result>>

genVars == <<g_cfg, g_step, g_in, g_cur, g_calls, g_ret>>

evVars == <<python, ev_pc, ev_error, ev_entry, ev_outputs, ev_mask, ev_given, ev_kwargs,
            ev_feedback, ev_states, ev_glimpses, ev_readouts, ev_raw,
            ev_costs, ev_cost, ev_aux>>

\* the bricks of sequence_generators.py called on their own
dimVars == <<d_cfg, d_attr, d_call, d_pushes, d_resolved, d_feedback>>

wrapVars == <<sg, fa_call>>

emVars == <<em_call>>

brickVars == <<evVars, dimVars, wrapVars, emVars>>

aggVars == <<numerator_acc, denominator_acc, agg_log>>

\* the monitoring and logging objects
jlVars == <<jl, jl_call, jl_hist>>

monVars == <<aggVars, jlVars>>

vars == <<beamVars, smVars, genVars, brickVars, monVars>>

----------------------------------------------------------------------------
(* Bounds of the model *)

\* largest beam size drawn
MaxBeam == 2
\* largest vocabulary size drawn
MaxVocab == 3
\* largest candidate matrix (beam_size * vocab_size) drawn
MaxCells == 6
\* largest max_length argument drawn
MaxLength == 2
\* largest finite negative log-probability drawn
MaxLogprob == 1

\* calls of compile() by search on one instance
MaxCompiles == 2

\* SoftmaxEmitter's default initial_output, the value initial_outputs returns
InitialOutput == 0

----------------------------------------------------------------------------
(* Floating point values *)

\* numpy.inf: larger than every finite cost the bounds allow
Inf == 1000
\* the NaN of inf * 0; numpy's sort and partition order put NaN last
NaN == Inf + 1

\* the finite entries the log-probability computer is given: probability 1
\* (cost 0) and the largest cost
FiniteLogprobs == {0, MaxLogprob}

\* a + b on floats
FAdd(a, b) ==
    IF a = NaN \/ b = NaN THEN NaN
    ELSE IF a = Inf \/ b = Inf THEN Inf
    ELSE a + b

\* a * m for a mask value m in {0, 1}
FMulMask(a, m) ==
    IF a = NaN THEN NaN
    ELSE IF m = 0 THEN (IF a = Inf THEN NaN ELSE 0)
    ELSE a

\* IEEE a <= b: false when either side is NaN
FLeq(a, b) == a # NaN /\ b # NaN /\ a <= b

\* the order numpy's argpartition and argsort use: NaN sorts after inf
SortLeq(a, b) == a <= b

Hyps == 0..(beam_size - 1)
Symbols == 0..(vocab_size - 1)

RECURSIVE SumTo(_, _)
\* f[0] + ... + f[n-1]
SumTo(f, n) == IF n = 0 THEN 0 ELSE SumTo(f, n - 1) + f[n - 1]

----------------------------------------------------------------------------
(* BeamSearch._smallest (search.py:206-230) *)

\* matrix.flatten() or matrix[:1, :].flatten(): a function over 0..n-1
Flatten(matrix, nrows, ncols, only_first_row) ==
    LET n == IF only_first_row THEN ncols ELSE nrows * ncols
    IN [f \in 0..(n - 1) |-> matrix[f \div ncols][f % ncols]]

FlatLen(nrows, ncols, only_first_row) ==
    IF only_first_row THEN ncols ELSE nrows * ncols

\* numpy.argpartition(flatten, k) raises ValueError unless k < len(flatten)
SmallestRaises(nrows, ncols, k, only_first_row) ==
    k >= FlatLen(nrows, ncols, only_first_row)

\* numpy.argpartition(flatten, k)[:k]: some k distinct positions holding k
\* smallest values; which of several equal values is taken is not specified.
ArgPartition(flatten, n, k) ==
    { S \in SUBSET (0..(n - 1)) :
        /\ Cardinality(S) = k
        /\ \A a \in S : \A b \in (0..(n - 1)) \ S :
              SortLeq(flatten[a], flatten[b]) }

\* variant: the chosen positions without the argsort of line 229
ArgSortedNoSort(flatten, S, k) ==
    { args \in [0..(k - 1) -> S] :
        \A a, b \in 0..(k - 1) : a # b => args[a] # args[b] }

\* args[numpy.argsort(flatten[args])]: the chosen positions in ascending
\* order of value; the order of equal values is not specified (quicksort).
ArgSorted(flatten, S, k) ==
    { args \in [0..(k - 1) -> S] :
        /\ \A a, b \in 0..(k - 1) : a # b => args[a] # args[b]
        /\ \A a, b \in 0..(k - 1) :
              a < b => SortLeq(flatten[args[a]], flatten[args[b]]) }

\* The results _smallest can return: records of the unravelled rows and
\* columns (numpy.unravel_index(args, matrix.shape)) and flatten[args].
Smallest(matrix, nrows, ncols, k, only_first_row) ==
    LET n == FlatLen(nrows, ncols, only_first_row)
        flatten == Flatten(matrix, nrows, ncols, only_first_row)
    IN { [rows |-> [a \in 0..(k - 1) |-> args[a] \div ncols],
          cols |-> [a \in 0..(k - 1) |-> args[a] % ncols],
          values |-> [a \in 0..(k - 1) |-> flatten[args[a]]]] :
           args \in UNION { ArgSorted(flatten, S, k) :
                              S \in ArgPartition(flatten, n, k) } }

----------------------------------------------------------------------------
(* BeamSearch.search (search.py:232-307) *)

Empty == [a \in {} |-> 0]

\* the outcome of a call: a returned value or the exception raised
Returned(value) == [ok |-> TRUE, value |-> value]

Raised(error) == [ok |-> FALSE, value |-> error]
NoReturn == [returned |-> FALSE]

\* variant: lines 278-279 left out, finished rows are not forced
NextCostsNoFreeze(logprobs) ==
    [j \in Hyps |-> [s \in Symbols |->
        FAdd(costs[j], FMulMask(logprobs[j][s], mask[j]))]]

\* variant: line 276 without the cumulative costs
NextCostsNoCarry(logprobs) ==
    [j \in Hyps |-> [s \in Symbols |->
        IF mask[j] = 0 /\ s # eol_symbol
        THEN Inf
        ELSE FMulMask(logprobs[j][s], mask[j])]]

\* lines 276-279: candidate costs, finished rows forced to the end symbol
NextCosts(logprobs) ==
    [j \in Hyps |-> [s \in Symbols |->
        IF mask[j] = 0 /\ s # eol_symbol
        THEN Inf
        ELSE FAdd(costs[j], FMulMask(logprobs[j][s], mask[j]))]]

\* variant: lines 286-291 left out, nothing is rearranged
ReindexNone(x, rows) == x

\* lines 286-291: x[indexes] for a per-hypothesis array x
Reindex(x, rows) == [j \in Hyps |-> x[rows[j]]]

\* the next-state computer (search.py:184-204): the new state of a hypothesis
\* is a function of its re-indexed state and the chosen output; the value is
\* kept as the sequence of outputs it was computed from.
ComputeNextStates(st, outs) == [j \in Hyps |-> Append(st[j], outs[j])]

\* variant: line 299 left out, the seeded row is kept
FinalOutputsKeepSeed == all_outputs

\* lines 299-305: drop the seeded row, mask = (outputs != eol), then set the
\* position row.sum() of every column of the mask that is not all ones.
FinalOutputs == Tail(all_outputs)

RawMask(outs) ==
    [t \in 1..Len(outs) |-> [j \in Hyps |->
        IF outs[t][j] # eol_symbol THEN 1 ELSE 0]]

RECURSIVE ColumnSum(_, _, _)
ColumnSum(m, j, t) == IF t = 0 THEN 0 ELSE ColumnSum(m, j, t - 1) + m[t][j]

\* variant: lines 303-305 left out, the first end symbol is not preserved
FinalMaskNoEol(outs) == RawMask(outs)

FinalMask(outs) ==
    LET raw == RawMask(outs)
        len == Len(outs)
    IN [t \in 1..len |-> [j \in Hyps |->
          IF ColumnSum(raw, j, len) < len /\ t = ColumnSum(raw, j, len) + 1
          THEN 1
          ELSE raw[t][j]]]

\* variant: line 257 without the guard
NeedsCompileAlways == TRUE

\* line 257: search compiles only when not yet compiled
NeedsCompile == ~compiled

\* variant: lines 270-271 left out
LoopContinuesNoBreak == i < max_length

\* lines 269-271: the range is not exhausted and some hypothesis is active
LoopContinues == i < max_length /\ SumTo(mask, beam_size) # 0

\* the functions compile builds, in the order of lines 123-126
Computers ==
    <<"context_computer", "initial_state_computer", "next_state_computer",
      "logprobs_computer">>

\* lines 90-95: building the initial state computer reads
\* self.generator.initial_state
CompileRaises == ~has_initial_state

\* no call of compile() yet
NoCompileCall == [called |-> FALSE]

\* the functions the instance holds after a call of compile(): all four,
\* or the context computer only when line 92 raises (lines 86-88 have run)
Compiled(held) ==
    IF CompileRaises
    THEN Raised([error |-> "AttributeError",
                 computers |-> held \cup {Computers[1]}])
    ELSE Returned([computers |-> {Computers[a] : a \in DOMAIN Computers}])

\* BeamSearch.compile, called explicitly by the user (search.py:122-127)
Compile ==
    /\ pc \in {"idle", "done", "error"}
    /\ LET r == Compiled(computers)
       IN /\ computers' = r.value.computers
          /\ compiled' = (IF r.ok THEN TRUE ELSE compiled)
          /\ compile_call' = [called |-> TRUE, ok |-> r.ok,
                              by |-> "user"]
    /\ UNCHANGED <<instVars, search_compiles,
                   pc, eol_symbol, max_length, i, states, all_outputs, mask,
                   costs, indexes, outputs, parent_mask, parent_costs,
                   error_at, ret>>

\* search, lines 257-258, when compile raises: the exception leaves search
\* before any of its locals is assigned
SearchRaises(eol, maxlen) ==
    /\ search_compiles < MaxCompiles
    /\ LET r == Compiled(computers)
       IN /\ computers' = r.value.computers
          /\ compile_call' = [called |-> TRUE, ok |-> FALSE, by |-> "search"]
    /\ search_compiles' = search_compiles + 1
    /\ eol_symbol' = eol
    /\ max_length' = maxlen
    /\ i' = 0
    /\ states' = Empty
    /\ all_outputs' = <<>>
    /\ mask' = Empty
    /\ costs' = Empty
    /\ indexes' = Empty
    /\ outputs' = Empty
    /\ parent_mask' = Empty
    /\ parent_costs' = Empty
    /\ error_at' = -1
    /\ ret' = NoReturn
    /\ pc' = "error"
    /\ UNCHANGED <<instVars, compiled>>

\* search, lines 257-267, when it gets past lines 257-258: compiled if
\* needed, contexts, initial states, all_outputs seeded with the initial
\* outputs, mask of ones, costs of zeros
SearchStarts(eol, maxlen) ==
    /\ compiled' = (IF NeedsCompile THEN TRUE ELSE compiled)
    /\ computers' = (IF NeedsCompile THEN Compiled(computers).value.computers
                     ELSE computers)
    /\ compile_call' = (IF NeedsCompile
                        THEN [called |-> TRUE, ok |-> TRUE, by |-> "search"]
                        ELSE compile_call)
    /\ search_compiles' = IF NeedsCompile THEN search_compiles + 1
                          ELSE search_compiles
    /\ eol_symbol' = eol
    /\ max_length' = maxlen
    /\ i' = 0
    /\ states' = [j \in Hyps |-> <<>>]
    /\ all_outputs' = << [j \in Hyps |-> InitialOutput] >>
    /\ mask' = [j \in Hyps |-> 1]
    /\ costs' = [j \in Hyps |-> 0]
    /\ indexes' = Empty
    /\ outputs' = Empty
    /\ parent_mask' = Empty
    /\ parent_costs' = Empty
    /\ error_at' = -1
    /\ ret' = NoReturn
    /\ pc' = "loop"
    /\ UNCHANGED instVars

\* search up to its loop, lines 257-267
SearchBegin(eol, maxlen) ==
    /\ pc \in {"idle", "done", "error"}
    /\ IF NeedsCompile /\ CompileRaises
       THEN SearchRaises(eol, maxlen)
       ELSE SearchStarts(eol, maxlen)

\* one iteration of the loop, lines 269-297, for the matrix the
\* log-probability computer returned
Iterate(logprobs) ==
    /\ pc = "loop"
    /\ LoopContinues
    /\ LET next_costs == NextCosts(logprobs)
           first == (i = 0)
       IN IF SmallestRaises(beam_size, vocab_size, beam_size, first)
          THEN /\ pc' = "error"
               /\ error_at' = i
               /\ UNCHANGED <<i, states, all_outputs, mask, costs, indexes,
                              outputs, parent_mask, parent_costs, ret>>
          ELSE \E r \in Smallest(next_costs, beam_size, vocab_size,
                                 beam_size, first) :
               /\ indexes' = r.rows
               /\ outputs' = r.cols
               /\ parent_mask' = Reindex(mask, r.rows)
               /\ parent_costs' = Reindex(costs, r.rows)
               /\ states' = ComputeNextStates(Reindex(states, r.rows),
                                              r.cols)
               /\ all_outputs' =
                    Append([t \in 1..Len(all_outputs) |->
                               Reindex(all_outputs[t], r.rows)],
                           r.cols)
               /\ costs' = r.values
               /\ mask' = [j \in Hyps |->
                             (IF r.cols[j] # eol_symbol THEN 1 ELSE 0)
                               * Reindex(mask, r.rows)[j]]
               /\ i' = i + 1
               /\ UNCHANGED <<pc, error_at, ret>>
    /\ UNCHANGED <<instVars, compiled, computers, compile_call,
                   search_compiles, eol_symbol, max_length>>

\* the loop ends (range exhausted, or the break of line 271), lines 299-307
Finish ==
    /\ pc = "loop"
    /\ ~LoopContinues
    /\ ret' = [returned |-> TRUE,
               all_outputs |-> FinalOutputs,
               mask |-> FinalMask(FinalOutputs),
               costs |-> costs]
    /\ pc' = "done"
    /\ UNCHANGED <<instVars, compiled, computers, compile_call,
                   search_compiles, eol_symbol, max_length, i, states,
                   all_outputs, mask, costs, indexes, outputs, parent_mask,
                   parent_costs, error_at>>

LogprobMatrices(D) == [Hyps -> [Symbols -> D]]

\* generators whose log-probability computer is a function of the state of
\* the hypothesis, kept as the outputs it was computed from:
\*   "ranked":   symbol s costs s * MaxLogprob in every state;
\*   "rising":   the ranking is rotated by the previous output, and every
\*               symbol costs MaxLogprob more with each output made.
\*   "certain":  the symbol after the previous output has probability 1 and
\*               every other symbol probability 0, whose -log is numpy.inf
\*               (search.py:117).
StateGenerators == {"ranked", "rising", "certain"}

\* the previous output of the state st, the initial output at the start
LastOutput(st) == IF st = <<>> THEN InitialOutput ELSE st[Len(st)]

\* the negative log-probability such a generator gives symbol s in state st
Logprob(kind, st, s) ==
    IF kind = "ranked"
    THEN s * MaxLogprob
    ELSE IF kind = "rising"
    THEN (((s + LastOutput(st)) % vocab_size) + Len(st)) * MaxLogprob
    ELSE IF s = (LastOutput(st) + 1) % vocab_size THEN 0 ELSE Inf

\* compute_logprobs (search.py:162-181) for such a generator: row j is
\* computed from the state of hypothesis j
ComputeLogprobs(kind) ==
    [j \in Hyps |-> [s \in Symbols |-> Logprob(kind, states[j], s)]]

\* BeamSearch.__init__ (search.py:48-84) for some beam size and generator
BeamInit ==
    /\ beam_size \in 1..MaxBeam
    /\ vocab_size \in 1..MaxVocab
    /\ beam_size * vocab_size <= MaxCells
    /\ generator \in {"any", "literal", "forced"} \cup StateGenerators
    /\ has_initial_state \in BOOLEAN
    /\ compiled = FALSE
    /\ computers = {}
    /\ compile_call = NoCompileCall
    /\ search_compiles = 0
    /\ pc = "idle"
    /\ eol_symbol = 0
    /\ max_length = 0
    /\ i = 0
    /\ states = Empty
    /\ all_outputs = <<>>
    /\ mask = Empty
    /\ costs = Empty
    /\ indexes = Empty
    /\ outputs = Empty
    /\ parent_mask = Empty
    /\ parent_costs = Empty
    /\ error_at = -1
    /\ ret = NoReturn

\* the steps of a running search
SearchStep ==
    \/ \E logprobs \in LogprobMatrices(FiniteLogprobs) : Iterate(logprobs)
    \/ Finish

BeamNext ==
    \/ Compile
    \/ \E eol \in Symbols, maxlen \in 0..MaxLength : SearchBegin(eol, maxlen)
    \/ SearchStep

----------------------------------------------------------------------------
(* _smallest applied to drawn matrices *)

\* the candidate values: finite costs and the inf of finished rows
SmValues == FiniteLogprobs \cup {MaxLogprob + 1, Inf}

SmInit ==
    /\ sm_pc = "input"
    /\ sm_rows \in 1..MaxBeam
    /\ sm_cols \in 1..MaxVocab
    /\ sm_rows * sm_cols <= MaxCells
    /\ sm_k \in 1..MaxBeam
    /\ sm_first \in BOOLEAN
    /\ sm_matrix \in [0..(sm_rows - 1) -> [0..(sm_cols - 1) -> SmValues]]
    /\ sm_result = Empty

SmParked ==
    /\ sm_pc = "off"
    /\ sm_rows = 0
    /\ sm_cols = 0
    /\ sm_k = 0
    /\ sm_first = FALSE
    /\ sm_matrix = Empty
    /\ sm_result = Empty

\* one call _smallest(matrix, k, only_first_row)
SmallestCall ==
    /\ sm_pc = "input"
    /\ IF SmallestRaises(sm_rows, sm_cols, sm_k, sm_first)
       THEN sm_pc' = "error" /\ sm_result' = sm_result
       ELSE /\ sm_pc' = "done"
            /\ sm_result' \in Smallest(sm_matrix, sm_rows, sm_cols, sm_k,
                                        sm_first)
    /\ UNCHANGED <<sm_rows, sm_cols, sm_k, sm_first, sm_matrix>>

\* the caller drops the result
SmallestForget ==
    /\ sm_pc \in {"done", "error"}
    /\ sm_pc' = "input"
    /\ sm_result' = Empty
    /\ UNCHANGED <<sm_rows, sm_cols, sm_k, sm_first, sm_matrix>>

----------------------------------------------------------------------------
(* BaseSequenceGenerator (sequence_generators.py:47-399)                   *)
(*                                                                         *)
(* The generator builds expressions; an expression is kept as the record   *)
(* of the application that produced it: the brick method (op), the name of *)
(* the output (out), the named arguments (args) and, for the stochastic    *)
(* emit, the symbol drawn (draw, -1 otherwise).                            *)

Term(op, out, args, draw) ==
    [op |-> op, out |-> out, args |-> args, draw |-> draw]

NoArgs == [n \in {} |-> 0]

Range(seq) == {seq[a] : a \in DOMAIN seq}

\* dict_subset(kwargs, names)
DictSubset(kwargs, names) == [n \in Range(names) |-> kwargs[n]]

\* the values of a dictionary in the order of its names
Values(dict, names) == [a \in DOMAIN names |-> dict[names[a]]]

\* self.transition.compute_states.outputs (line 167)
StateNames == g_cfg.state_names

\* self.transition.apply.contexts (line 171)
ContextNames == IF g_cfg.attention THEN <<"attended", "attended_mask">>
                ELSE <<>>

\* self.transition.take_glimpses.outputs (line 175)
GlimpseNames == IF g_cfg.attention THEN <<"weighted_averages", "weights">>
                ELSE <<>>

\* self.language_model.generate.outputs (line 179)
LmStateNames == IF g_cfg.lm THEN <<"lm_states">> ELSE <<>>

\* the outputs of self.fork.apply: the transition's sequence inputs
ForkNames == <<"inputs">>

\* generate.states (lines 359-364)
GenerateStates ==
    StateNames \o <<"outputs">> \o GlimpseNames \o LmStateNames

\* generate.outputs (lines 366-372)
GenerateOutputs ==
    StateNames \o <<"outputs">> \o GlimpseNames \o LmStateNames
        \o <<"costs">>

\* the contexts given to the generator
GenContexts == [n \in Range(ContextNames) |-> Term("context", n, NoArgs, -1)]

\* transition.initial_states(batch_size, as_dict=True): the initial states
\* and glimpses of the transition
TransitionInitialStates ==
    [n \in Range(StateNames) \cup Range(GlimpseNames) |->
        Term("initial_states", n, NoArgs, -1)]

\* lines 386-389: the transition's initial states and glimpses and the
\* readout's initial outputs
StateDict ==
    TransitionInitialStates
        @@ [outputs |-> Term("initial_outputs", "outputs", NoArgs, -1)]

\* initial_states (lines 384-395).  With a language model, lines 391-393
\* give dict_union the result of language_model.initial_states called
\* without as_dict, which is not a dictionary: AttributeError.
InitialStates ==
    IF g_cfg.lm
    THEN Raised("AttributeError")
    ELSE Returned([n \in Range(GenerateStates) |-> StateDict[n]])

\* the values a caller gives for generate.states when it calls the step
\* itself
GivenStates ==
    [n \in Range(GenerateStates) |-> Term("given", n, NoArgs, -1)]

\* the values the unroll starts from: the initial states, or the caller's
\* values where initial_states raises
StartStates ==
    IF InitialStates.ok THEN InitialStates.value ELSE GivenStates

\* lines 330-335: the language model's step on the previous outputs
LmStates(kwargs) ==
    [n \in Range(LmStateNames) |->
        Term("lm.generate", n,
             [outputs |-> kwargs["outputs"]]
                @@ DictSubset(kwargs, LmStateNames), -1)]

\* lines 337-339: the arguments of transition.take_glimpses
GlimpseSources(kwargs) ==
    LmStates(kwargs) @@ DictSubset(kwargs, StateNames)
        @@ DictSubset(kwargs, GlimpseNames) @@ GenContexts

NextGlimpses(kwargs) ==
    [n \in Range(GlimpseNames) |->
        Term("take_glimpses", n, GlimpseSources(kwargs), -1)]

\* readout.feedback(outputs)
Feedback(outs) == Term("feedback", "feedback", [outputs |-> outs], -1)

\* variant: the readout is given the glimpses of the previous step
ReadoutSourcesOldGlimpses(kwargs) ==
    [feedback |-> Feedback(kwargs["outputs"])]
        @@ DictSubset(kwargs, StateNames) @@ DictSubset(kwargs, GlimpseNames)
        @@ GenContexts

\* lines 340-342: the arguments of readout.readout
ReadoutSources(kwargs) ==
    [feedback |-> Feedback(kwargs["outputs"])]
        @@ DictSubset(kwargs, StateNames) @@ NextGlimpses(kwargs)
        @@ GenContexts

NextReadouts(kwargs) ==
    Term("readout", "readouts", ReadoutSources(kwargs), -1)

\* line 343: readout.emit draws the symbol y
NextOutputs(kwargs, y) ==
    Term("emit", "outputs", [readouts |-> NextReadouts(kwargs)], y)

\* line 344
NextCost(kwargs, y) ==
    Term("cost", "costs",
         [readouts |-> NextReadouts(kwargs),
          outputs |-> NextOutputs(kwargs, y)], -1)

\* variant: the states are fed the feedback of the previous output
NextFeedbackPrevious(kwargs, y) == Feedback(kwargs["outputs"])

\* line 345
NextFeedback(kwargs, y) == Feedback(NextOutputs(kwargs, y))

\* lines 346-347
NextInputs(kwargs, y) ==
    IF g_cfg.fork
    THEN [n \in Range(ForkNames) |->
             Term("fork", n, [feedback |-> NextFeedback(kwargs, y)], -1)]
    ELSE [feedback |-> NextFeedback(kwargs, y)]

\* lines 348-350: the arguments of transition.compute_states
StateSources(kwargs, y) ==
    NextInputs(kwargs, y) @@ DictSubset(kwargs, StateNames)
        @@ NextGlimpses(kwargs) @@ GenContexts

NextStates(kwargs, y) ==
    [n \in Range(StateNames) |->
        Term("compute_states", n, StateSources(kwargs, y), -1)]

\* lines 351-353: the returned list
GenerateReturn(kwargs, y) ==
    Values(NextStates(kwargs, y), StateNames)
        \o << NextOutputs(kwargs, y) >>
        \o Values(NextGlimpses(kwargs), GlimpseNames)
        \o Values(LmStates(kwargs), LmStateNames)
        \o << NextCost(kwargs, y) >>

\* the applications generate makes, in the order it makes them
GenerateCalls(kwargs, y) ==
    (IF g_cfg.lm
     THEN << [op |-> "lm.generate", results |-> Range(Values(LmStates(kwargs), LmStateNames))] >>
     ELSE <<>>)
    \o << [op |-> "take_glimpses",
           results |-> Range(Values(NextGlimpses(kwargs), GlimpseNames))],
          [op |-> "feedback", results |-> {Feedback(kwargs["outputs"])}],
          [op |-> "readout", results |-> {NextReadouts(kwargs)}],
          [op |-> "emit", results |-> {NextOutputs(kwargs, y)}],
          [op |-> "cost", results |-> {NextCost(kwargs, y)}],
          [op |-> "feedback", results |-> {NextFeedback(kwargs, y)}] >>
    \o (IF g_cfg.fork
        THEN << [op |-> "fork",
                 results |-> {NextInputs(kwargs, y)[n] : n \in Range(ForkNames)}] >>
        ELSE <<>>)
    \o << [op |-> "compute_states",
           results |-> Range(Values(NextStates(kwargs, y), StateNames))] >>

\* the symbols emit can draw
GenSymbols == {0, 1, 2}

\* largest number of steps a generator is unrolled
MaxSteps == 2

GenConfigs ==
    [state_names : {<<"states">>, <<"states", "cells">>},
     attention : BOOLEAN, lm : BOOLEAN, fork : BOOLEAN]

\* a generator is constructed; the unroll starts from initial_states, from
\* the caller's values where there are none
GenInit ==
    /\ g_cfg \in GenConfigs
    /\ g_step = 0
    /\ g_in = NoArgs
    /\ g_cur = StartStates
    /\ g_calls = <<>>
    /\ g_ret = <<>>

GenParked ==
    /\ g_cfg = [state_names |-> <<>>, attention |-> FALSE, lm |-> FALSE,
                fork |-> FALSE]
    /\ g_step = 0
    /\ g_in = NoArgs
    /\ g_cur = NoArgs
    /\ g_calls = <<>>
    /\ g_ret = <<>>

\* one step of the unroll: generate applied to the current values of
\* generate.states; the recurrent wrapper names the returned list by
\* generate.outputs and feeds the generate.states among them to the next step
GenerateStep(y) ==
    /\ g_step < MaxSteps
    /\ g_in' = g_cur
    /\ g_calls' = GenerateCalls(g_cur, y)
    /\ g_ret' = GenerateReturn(g_cur, y)
    /\ g_cur' = [n \in Range(GenerateStates) |->
                    LET pos == CHOOSE a \in DOMAIN GenerateOutputs :
                                   GenerateOutputs[a] = n
                    IN GenerateReturn(g_cur, y)[pos]]
    /\ g_step' = g_step + 1
    /\ UNCHANGED g_cfg

\* the unroll is started again
GenerateRestart ==
    /\ g_step > 0
    /\ g_step' = 0
    /\ g_in' = NoArgs
    /\ g_cur' = StartStates
    /\ g_calls' = <<>>
    /\ g_ret' = <<>>
    /\ UNCHANGED g_cfg

GenNext ==
    \/ \E y \in GenSymbols : GenerateStep(y)
    \/ GenerateRestart

----------------------------------------------------------------------------
(* BaseSequenceGenerator.cost, cost_matrix and evaluate                    *)
(* (sequence_generators.py:201-310)                                        *)
(*                                                                         *)
(* outputs has the axes (time, batch); the expressions are kept per time   *)
(* step, the numbers per time step and batch position.  The numbers of the *)
(* cost matrix are what readout.cost returns, an input of the model.       *)

\* largest number of time steps of a target sequence
MaxTime == 2

\* largest batch size
MaxBatch == 2

\* largest per-step cost readout.cost returns
MaxCost == 1

\* largest number of elements of a cost matrix
MaxElements == 4

Times(outs) == DOMAIN outs

\* the target output of time step t
Target(t, y) ==
    [op |-> "target", out |-> "outputs", args |-> NoArgs, draw |-> y,
     pos |-> t]

NoMask == [given |-> FALSE]

GivenMask(m) == [given |-> TRUE, m |-> m]

\* a number kept as the quotient it was computed as
Quotient(num, den) == [num |-> num, den |-> den]

NoValue == [none |-> TRUE]

\* the keyword arguments of a caller: the contexts and initial states
CallerKwargs(with_contexts, with_states) ==
    (IF with_contexts THEN GenContexts ELSE NoArgs)
        @@ (IF with_states
            THEN [n \in Range(StateNames) |-> Term("given", n, NoArgs, -1)]
            ELSE NoArgs)

\* dict_subset(kwargs, names, must_have=False)
DictSubsetOptional(kwargs, names) ==
    [n \in Range(names) \cap DOMAIN kwargs |-> kwargs[n]]

\* line 253 raises KeyError for a context that is not among the keyword
\* arguments; line 255 applies self.fork without the test generate makes
EvaluateRaises(kwargs) ==
    \/ \E n \in Range(ContextNames) : n \notin DOMAIN kwargs
    \/ ~g_cfg.fork

\* the exception of lines 253 and 255: the missing context is looked up
\* first, then apply is looked up on the fork that is None
EvaluateError(kwargs) ==
    IF \E n \in Range(ContextNames) : n \notin DOMAIN kwargs
    THEN "KeyError"
    ELSE "AttributeError"

\* line 254: the feedback of every target output
EvFeedback(outs) ==
    [t \in Times(outs) |-> Feedback(Target(t, outs[t]))]

\* line 255: fork.apply(feedback, as_dict=True)
EvInputs(outs) ==
    [t \in Times(outs) |->
        [n \in Range(ForkNames) |->
            Term("fork", n, [feedback |-> EvFeedback(outs)[t]], -1)]]

\* the states the recurrence starts from: those among the keyword
\* arguments, the transition's initial states otherwise
EvInitialStates(kwargs) ==
    [n \in Range(StateNames) |->
        IF n \in DOMAIN kwargs THEN kwargs[n]
        ELSE TransitionInitialStates[n]]

EvInitialGlimpses ==
    [n \in Range(GlimpseNames) |-> TransitionInitialStates[n]]

EvMaskArgs(msk) ==
    IF msk.given THEN [mask |-> Term("mask", "mask", NoArgs, -1)]
    ELSE NoArgs

\* lines 258-260: transition.apply(mask=mask, return_initial_states=True,
\* **dict_union(inputs, states, contexts)) over t time steps; element 1 of
\* the result holds the initial states and glimpses, element t + 1 those
\* after the input of time step t - 1
RECURSIVE TransitionApply(_, _, _, _)
TransitionApply(t, outs, msk, kwargs) ==
    IF t = 0
    THEN << [states |-> EvInitialStates(
                            DictSubsetOptional(kwargs, StateNames)),
             glimpses |-> EvInitialGlimpses] >>
    ELSE LET before == TransitionApply(t - 1, outs, msk, kwargs)
             last == before[t]
             contexts == DictSubset(kwargs, ContextNames)
             next_glimpses ==
                 [n \in Range(GlimpseNames) |->
                     Term("take_glimpses", n,
                          last.states @@ last.glimpses @@ contexts, -1)]
             next_states ==
                 [n \in Range(StateNames) |->
                     Term("compute_states", n,
                          EvInputs(outs)[t - 1] @@ last.states @@ next_glimpses
                              @@ contexts @@ EvMaskArgs(msk), -1)]
         IN Append(before, [states |-> next_states, glimpses |-> next_glimpses])

Results(outs, msk, kwargs) ==
    TransitionApply(Cardinality(Times(outs)), outs, msk, kwargs)

\* variant: the initial states are discarded instead of the last ones
EvStatesDropFirst(outs, msk, kwargs) ==
    [t \in Times(outs) |-> Results(outs, msk, kwargs)[t + 2].states]

\* line 267: results[name][:-1]
EvStates(outs, msk, kwargs) ==
    [t \in Times(outs) |-> Results(outs, msk, kwargs)[t + 1].states]

\* line 268: results[name][1:]
EvGlimpses(outs, msk, kwargs) ==
    [t \in Times(outs) |-> Results(outs, msk, kwargs)[t + 2].glimpses]

\* tensor.roll(feedback, 1, 0)
Roll(feedback) ==
    LET n == Cardinality(DOMAIN feedback)
    IN [t \in DOMAIN feedback |-> feedback[(t + n - 1) % n]]

\* variant: line 271 left out
ShiftedFeedbackNoRoll(outs) ==
    [EvFeedback(outs) EXCEPT
        ![0] = Feedback(Term("initial_outputs", "outputs", NoArgs, -1))]

\* lines 271-274: the feedback rolled by one time step, its first element
\* set to the feedback of the initial outputs
ShiftedFeedback(outs) ==
    [Roll(EvFeedback(outs)) EXCEPT
        ![0] = Feedback(Term("initial_outputs", "outputs", NoArgs, -1))]

\* lines 277-282: the outputs of the language model at time step t
EvLmStates(outs, msk, t) ==
    IF g_cfg.lm
    THEN [outputs |->
             Term("lm.evaluate", "outputs",
                  [outputs |-> Target(t, outs[t])] @@ EvMaskArgs(msk), -1)]
    ELSE NoArgs

\* lines 284-286
EvReadouts(outs, msk, kwargs) ==
    [t \in Times(outs) |->
        Term("readout", "readouts",
             [feedback |-> ShiftedFeedback(outs)[t]]
                 @@ EvLmStates(outs, msk, t)
                 @@ EvStates(outs, msk, kwargs)[t]
                 @@ EvGlimpses(outs, msk, kwargs)[t]
                 @@ DictSubset(kwargs, ContextNames), -1)]

\* variant: lines 288-289 left out
EvCostsNoMask(raw, msk) == raw

\* lines 287-289: the numbers of readout.cost, times the mask if one is given
EvCosts(raw, msk) ==
    IF msk.given
    THEN [t \in DOMAIN raw |->
             [b \in DOMAIN raw[t] |-> raw[t][b] * msk.m[t][b]]]
    ELSE raw

\* matrix.sum()
SumAll(matrix) ==
    LET n == Cardinality(DOMAIN matrix)
    IN SumTo([t \in DOMAIN matrix |->
                 SumTo(matrix[t], Cardinality(DOMAIN matrix[t]))], n)

\* line 237: tensor.mean(costs.sum(axis=0))
CostMean(cm) == Quotient(SumAll(cm), Cardinality(DOMAIN cm[0]))

\* line 242
PerSequenceElement(cm, msk) ==
    IF msk.given THEN Quotient(SumAll(cm), SumAll(msk.m))
    ELSE Quotient(SumAll(cm), 1)

\* line 310: cost_matrix calls evaluate(outputs, mask=mask)
CostMatrixKwargs(given) == NoArgs

\* the keyword arguments with which evaluate runs
ReceivedKwargs(entry, given) ==
    IF entry = "cost" THEN CostMatrixKwargs(given) ELSE given

\* a generator on which neither cost nor evaluate has been called
\* the interpreters the package runs on (it imports six)
Pythons == {2, 3}

EvInit ==
    /\ python \in Pythons
    /\ ev_pc = "idle"
    /\ ev_error = ""
    /\ ev_entry = "evaluate"
    /\ ev_outputs = NoArgs
    /\ ev_mask = NoMask
    /\ ev_given = NoArgs
    /\ ev_kwargs = NoArgs
    /\ ev_feedback = NoArgs
    /\ ev_states = NoArgs
    /\ ev_glimpses = NoArgs
    /\ ev_readouts = NoArgs
    /\ ev_raw = NoArgs
    /\ ev_costs = NoArgs
    /\ ev_cost = NoValue
    /\ ev_aux = NoValue

\* nothing is called on the generator's cost methods
EvParked == EvInit /\ python = 3

\* line 294: [costs] + states.values() + [outputs] + glimpses.values().
\* Under Python 3 dict.values() is a view and list + view raises TypeError.
ReturnRaises == python = 3

\* one call of generator.cost or generator.evaluate with the target
\* outputs outs; raw holds the numbers readout.cost returns
EvaluateCall(entry, outs, msk, with_contexts, with_states, raw) ==
    /\ ev_pc = "idle"
    /\ ev_entry' = entry
    /\ ev_outputs' = outs
    /\ ev_mask' = msk
    /\ ev_given' = CallerKwargs(with_contexts, with_states)
    /\ LET kwargs == ReceivedKwargs(entry,
                                    CallerKwargs(with_contexts, with_states))
       IN /\ ev_kwargs' = kwargs
          /\ IF EvaluateRaises(kwargs)
             THEN /\ ev_pc' = "error"
                  /\ ev_error' = EvaluateError(kwargs)
                  /\ UNCHANGED <<ev_feedback, ev_states, ev_glimpses,
                                 ev_readouts, ev_raw, ev_costs, ev_cost,
                                 ev_aux>>
             ELSE /\ ev_feedback' = ShiftedFeedback(outs)
                  /\ ev_states' = EvStates(outs, msk, kwargs)
                  /\ ev_glimpses' = EvGlimpses(outs, msk, kwargs)
                  /\ ev_readouts' = EvReadouts(outs, msk, kwargs)
                  /\ ev_raw' = raw
                  /\ ev_costs' = EvCosts(raw, msk)
                  /\ IF ReturnRaises
                     THEN /\ ev_pc' = "error"
                          /\ ev_error' = "TypeError"
                          /\ UNCHANGED <<ev_cost, ev_aux>>
                     ELSE /\ ev_pc' = "done"
                          /\ ev_error' = ""
                          /\ ev_cost' = IF entry = "cost"
                                        THEN CostMean(EvCosts(raw, msk))
                                        ELSE NoValue
                          /\ ev_aux' = IF entry = "cost"
                                       THEN PerSequenceElement(
                                                EvCosts(raw, msk), msk)
                                       ELSE NoValue
    /\ UNCHANGED python

\* the results of the call are dropped
EvaluateForget ==
    /\ ev_pc \in {"done", "error"}
    /\ ev_pc' = "idle"
    /\ ev_error' = ""
    /\ UNCHANGED python
    /\ ev_entry' = "evaluate"
    /\ ev_outputs' = NoArgs
    /\ ev_mask' = NoMask
    /\ ev_given' = NoArgs
    /\ ev_kwargs' = NoArgs
    /\ ev_feedback' = NoArgs
    /\ ev_states' = NoArgs
    /\ ev_glimpses' = NoArgs
    /\ ev_readouts' = NoArgs
    /\ ev_raw' = NoArgs
    /\ ev_costs' = NoArgs
    /\ ev_cost' = NoValue
    /\ ev_aux' = NoValue

\* the shapes (time, batch) of the bounds
Shapes ==
    {sh \in (1..MaxTime) \X (1..MaxBatch) : sh[1] * sh[2] <= MaxElements}

Matrices(sh, D) == [0..(sh[1] - 1) -> [0..(sh[2] - 1) -> D]]

\* the masks a caller can give for a shape
Masks(sh) == {NoMask} \cup {GivenMask(m) : m \in Matrices(sh, {0, 1})}

----------------------------------------------------------------------------
(* Dimensions: get_dim and _push_allocation_config                         *)
(* (sequence_generators.py:181-199, 374-382, 570-577, 602-609, 693-696,    *)
(* 745-748, 762-765, 792-795, 854-855)                                     *)

\* an allocation attribute that has not been given a value
Unset == -1

\* the readout_dim the readout is constructed with
ReadoutDim == 3

\* a dimension of a feedback brick that differs from ReadoutDim
OtherDim == 5

Answer(owner, value) == [owner |-> owner, ok |-> TRUE, value |-> value]

\* Brick.get_dim: no dimension information for the name
Unresolved(owner) == [owner |-> owner, ok |-> FALSE, value |-> Unset]

By(owner, answer) == [answer EXCEPT !.owner = owner]

\* the names of the transition of configuration cfg
DimStateNames(cfg) == cfg.state_names

DimContextNames(cfg) ==
    IF cfg.attention THEN <<"attended", "attended_mask">> ELSE <<>>

DimGlimpseNames(cfg) ==
    IF cfg.attention THEN <<"weighted_averages", "weights">> ELSE <<>>

DimLmStateNames(cfg) == <<"lm_states">>

\* the dimension the wrapped transition has for one of its names
WrappedDim(name) ==
    CASE name = "states" -> 4
      [] name = "outputs" -> 6
      [] name = "inputs" -> 8
      [] name = "attended" -> 7
      [] name = "weighted_averages" -> 7
      [] name = "cells" -> 4
      [] name = "context" -> 7
      [] OTHER -> 0

\* transition.get_dim(name): the transition resolves its states, contexts
\* and glimpses and the sequences it is applied to
TransitionGetDim(cfg, name) ==
    IF name \in Range(DimStateNames(cfg)) \cup Range(DimContextNames(cfg))
                   \cup Range(DimGlimpseNames(cfg)) \cup Range(ForkNames)
    THEN Answer("transition", WrappedDim(name))
    ELSE Unresolved("transition")

\* TrivialEmitter.get_dim (lines 693-696), SoftmaxEmitter.get_dim (745-748)
EmitterGetDim(cfg, attr, name) ==
    IF name = "outputs"
    THEN Answer("emitter", IF cfg.emitter = "trivial"
                           THEN attr.emitter_readout_dim ELSE 0)
    ELSE Unresolved("emitter")

\* TrivialFeedback.get_dim (lines 762-765), LookupFeedback.get_dim (792-795)
FeedbackGetDim(cfg, attr, name) ==
    IF name = "feedback"
    THEN Answer("feedback_brick", IF cfg.feedback = "trivial"
                                  THEN attr.feedback_output_dim
                                  ELSE cfg.feedback_dim)
    ELSE Unresolved("feedback_brick")

\* Readout.get_dim (lines 602-609)
ReadoutGetDim(cfg, attr, name) ==
    IF name = "outputs" THEN EmitterGetDim(cfg, attr, name)
    ELSE IF name = "feedback" THEN FeedbackGetDim(cfg, attr, name)
    ELSE IF name = "readouts" THEN Answer("readout", ReadoutDim)
    ELSE Unresolved("readout")

\* language_model.get_dim(name)
LanguageModelGetDim(cfg, name) ==
    IF name \in Range(DimLmStateNames(cfg))
    THEN Answer("language_model", 4)
    ELSE Unresolved("language_model")

\* variant: 'outputs' is looked up in the readout before the transition
GetDimOutputsFirst(cfg, attr, name) ==
    IF name = "outputs"
    THEN By("readout", ReadoutGetDim(cfg, attr, name))
    ELSE IF name \in Range(DimStateNames(cfg) \o DimContextNames(cfg)
                             \o DimGlimpseNames(cfg))
    THEN By("transition", TransitionGetDim(cfg, name))
    ELSE IF cfg.lm /\ name \in Range(DimLmStateNames(cfg))
    THEN By("language_model", LanguageModelGetDim(cfg, name))
    ELSE Unresolved("base")

\* BaseSequenceGenerator.get_dim (lines 374-382)
GetDim(cfg, attr, name) ==
    IF name \in Range(DimStateNames(cfg) \o DimContextNames(cfg)
                        \o DimGlimpseNames(cfg))
    THEN By("transition", TransitionGetDim(cfg, name))
    ELSE IF name = "outputs"
    THEN By("readout", ReadoutGetDim(cfg, attr, name))
    ELSE IF cfg.lm /\ name \in Range(DimLmStateNames(cfg))
    THEN By("language_model", LanguageModelGetDim(cfg, name))
    ELSE Unresolved("base")

\* the names get_dim is asked for
DimNames ==
    {"states", "outputs", "attended", "attended_mask", "weighted_averages",
     "weights", "lm_states", "feedback", "readouts", "costs"}

\* the components a generator is built from
DimConfigs ==
    [state_names : {<<"states">>, <<"states", "outputs">>},
     attention : BOOLEAN,
     lm : BOOLEAN,
     emitter : {"trivial", "softmax"},
     emitter_dim : {Unset, ReadoutDim},
     feedback : {"trivial", "lookup"},
     feedback_dim : {Unset, ReadoutDim, OtherDim},
     source_names : {<<"states">>, <<"states", "feedback">>,
                     <<"states", "weighted_averages">>}]

\* the attributes after construction: TrivialEmitter and TrivialFeedback
\* keep the dimension they were constructed with, nothing is resolved
InitialAttributes(cfg) ==
    [emitter_readout_dim |-> cfg.emitter_dim,
     feedback_output_dim |->
         IF cfg.feedback = "trivial" THEN cfg.feedback_dim ELSE Unset,
     source_dims |-> <<>>,
     merge_input_dims |-> <<>>,
     fork_input_dim |-> Unset,
     fork_output_dims |-> <<>>]

NoCall == [name |-> "", answer |-> Unresolved("")]

NoFeedbackCall ==
    [outcome |-> [called |-> FALSE, ok |-> FALSE, value |-> ""],
     output_dim |-> Unset, pushed |-> FALSE]

DimInit ==
    /\ d_cfg \in DimConfigs
    /\ \A n \in Range(d_cfg.source_names) :
          n = "weighted_averages" => d_cfg.attention
    /\ d_attr = InitialAttributes(d_cfg)
    /\ d_call = NoCall
    /\ d_pushes = <<>>
    /\ d_resolved = <<>>
    /\ d_feedback = NoFeedbackCall

DimParked ==
    /\ d_cfg = [state_names |-> <<"states">>, attention |-> FALSE,
                lm |-> FALSE, emitter |-> "trivial",
                emitter_dim |-> ReadoutDim, feedback |-> "trivial",
                feedback_dim |-> ReadoutDim, source_names |-> <<"states">>]
    /\ d_attr = InitialAttributes(d_cfg)
    /\ d_call = NoCall
    /\ d_pushes = <<>>
    /\ d_resolved = <<>>
    /\ d_feedback = NoFeedbackCall

\* largest number of times the allocation configuration is pushed
MaxPushes == 2

\* lines 186-191: the dimension of every source of the readout
SourceDims(cfg, attr) ==
    [k \in DOMAIN cfg.source_names |->
        LET name == cfg.source_names[k]
        IN IF name \in Range(DimStateNames(cfg) \o DimContextNames(cfg)
                               \o DimGlimpseNames(cfg))
           THEN TransitionGetDim(cfg, name)
           ELSE ReadoutGetDim(cfg, attr, name)]

\* a source of the readout that nobody has a dimension for: get_dim raises
PushRaises(cfg, attr) ==
    \E k \in DOMAIN cfg.source_names : ~SourceDims(cfg, attr)[k].ok

\* line 188: readout.source_dims is assigned
WithSourceDims(cfg, attr) ==
    [attr EXCEPT !.source_dims =
        [k \in DOMAIN cfg.source_names |-> SourceDims(cfg, attr)[k].value]]

\* Readout._push_allocation_config (lines 570-577)
ReadoutPush(cfg, attr) ==
    LET with_emitter == [attr EXCEPT !.emitter_readout_dim =
                            ReadoutGetDim(cfg, attr, "readouts").value]
    IN [with_emitter EXCEPT
          !.feedback_output_dim =
              ReadoutGetDim(cfg, with_emitter, "outputs").value,
          !.merge_input_dims = attr.source_dims]

\* lines 196-199: the dimensions of the fork
ForkPush(cfg, attr) ==
    [attr EXCEPT
        !.fork_input_dim = ReadoutGetDim(cfg, attr, "feedback").value,
        !.fork_output_dims =
            [k \in DOMAIN ForkNames |->
                TransitionGetDim(cfg, ForkNames[k]).value]]

\* the attributes after BaseSequenceGenerator._push_allocation_config
Pushed(cfg, attr) ==
    ForkPush(cfg, ReadoutPush(cfg, WithSourceDims(cfg, attr)))

\* what a push has resolved
Resolved(attr) ==
    [source_dims |-> attr.source_dims,
     fork_input_dim |-> attr.fork_input_dim,
     fork_output_dims |-> attr.fork_output_dims]

\* generator.push_allocation_config(): lines 181-199
PushAllocationConfig ==
    /\ Len(d_resolved) < MaxPushes
    /\ IF PushRaises(d_cfg, d_attr)
       THEN /\ d_pushes' = d_pushes \o <<"transition", "error">>
            /\ d_resolved' = Append(d_resolved, Resolved(d_attr))
            /\ UNCHANGED d_attr
       ELSE /\ d_pushes' = d_pushes \o <<"transition", "readout.source_dims",
                                         "readout", "fork.input_dim",
                                         "fork.output_dims">>
            /\ d_attr' = Pushed(d_cfg, d_attr)
            /\ d_resolved' = Append(d_resolved,
                                    Resolved(Pushed(d_cfg, d_attr)))
    /\ UNCHANGED <<d_cfg, d_call, d_feedback>>

\* generator.get_dim(name)
GetDimCall(name) ==
    /\ d_call' = [name |-> name, answer |-> GetDim(d_cfg, d_attr, name)]
    /\ UNCHANGED <<d_cfg, d_attr, d_pushes, d_resolved, d_feedback>>

\* variant: LookupFeedback.feedback without the assertion on output_dim
LookupFeedbackNoAssert(attr) ==
    [called |-> TRUE, ok |-> TRUE, value |-> "lookup.apply(outputs)"]

\* LookupFeedback.feedback (lines 787-790): output_dim is no attribute of
\* the brick until the readout's push assigns it (line 572)
LookupFeedback(attr) ==
    IF attr.feedback_output_dim = Unset
    THEN [called |-> TRUE, ok |-> FALSE, value |-> "AttributeError"]
    ELSE IF attr.feedback_output_dim # 0
    THEN [called |-> TRUE, ok |-> FALSE, value |-> "AssertionError"]
    ELSE [called |-> TRUE, ok |-> TRUE, value |-> "lookup.apply(outputs)"]

\* TrivialFeedback.feedback (lines 758-760)
TrivialFeedback(attr) == [called |-> TRUE, ok |-> TRUE, value |-> "outputs"]

\* readout.feedback_brick.feedback(outputs)
FeedbackCall ==
    /\ d_feedback' =
           [outcome |-> IF d_cfg.feedback = "lookup"
                        THEN LookupFeedback(d_attr)
                        ELSE TrivialFeedback(d_attr),
            output_dim |-> d_attr.feedback_output_dim,
            pushed |-> \E k \in DOMAIN d_pushes : d_pushes[k] = "readout"]
    /\ UNCHANGED <<d_cfg, d_attr, d_call, d_pushes, d_resolved>>

----------------------------------------------------------------------------
(* SequenceGenerator.__init__ and FakeAttentionRecurrent                   *)
(* (sequence_generators.py:798-897)                                        *)
(*                                                                         *)
(* The results of the applications are kept as dictionaries from the names *)
(* of the outputs to the expressions, as the generator reads them.         *)

\* the recurrent bricks a generator is built on: the names of their apply.
\* The outputs of apply are the states: initial_states (lines 386-395) has
\* a value for nothing else.
WrappedTransitions ==
    {[states |-> st, outputs |-> st, contexts |-> cx, sequences |-> sq] :
        st \in {<<"states">>, <<"states", "cells">>},
        cx \in {<<>>, <<"context">>},
        sq \in {<<"inputs">>, <<"inputs", "mask">>}}

\* the names with the substring 'mask' (line 887)
MaskNames == {"mask", "attended_mask"}

RECURSIVE WithoutMask(_)
WithoutMask(names) ==
    IF names = <<>> THEN <<>>
    ELSE IF Head(names) \in MaskNames THEN WithoutMask(Tail(names))
         ELSE <<Head(names)>> \o WithoutMask(Tail(names))

NoGenerator == [wrapper |-> "none"]

\* SequenceGenerator.__init__ (lines 884-897)
SequenceGeneratorInit(transition, attention, language_model) ==
    [wrapper |-> IF attention THEN "AttentionRecurrent"
                 ELSE "FakeAttentionRecurrent",
     attention |-> attention,
     language_model |-> language_model,
     wrapped |-> transition,
     fork_input_names |-> WithoutMask(transition.sequences)]

\* FakeAttentionRecurrent.__init__ (line 821)
FakeGlimpseNames(tr) == <<>>

\* the outputs of the applications of the wrapper: compute_states is
\* delegated to the wrapped apply (lines 837-839), take_glimpses has none
\* (line 841), initial_states has the wrapped states (lines 850-852)
FakeComputeStatesOutputs(tr) == tr.outputs

FakeTakeGlimpsesOutputs(tr) == <<>>

FakeInitialStatesOutputs(tr) == tr.states

\* the names of a generator built on the wrapper (lines 165-175, 359-364)
SgStateNames(g) ==
    IF g.wrapper = "FakeAttentionRecurrent"
    THEN FakeComputeStatesOutputs(g.wrapped) ELSE g.wrapped.states

SgGlimpseNames(g) ==
    IF g.wrapper = "FakeAttentionRecurrent"
    THEN FakeTakeGlimpsesOutputs(g.wrapped)
    ELSE <<"weighted_averages", "weights">>

SgLmStateNames(g) == IF g.language_model THEN <<"lm_states">> ELSE <<>>

SgGenerateStates(g) ==
    SgStateNames(g) \o <<"outputs">> \o SgGlimpseNames(g)
        \o SgLmStateNames(g)

\* what the wrapped transition returns
WrappedApply(tr, iterate, kwargs) ==
    [n \in Range(tr.outputs) |->
        Term(IF iterate THEN "transition.apply"
             ELSE "transition.apply(iterate=False)", n, kwargs, -1)]

WrappedInitialStates(tr, kwargs) ==
    [n \in Range(tr.states) |->
        Term("transition.initial_states", n, kwargs, -1)]

WrappedGetDim(tr, name) ==
    IF name \in Range(tr.states \o tr.contexts \o tr.sequences)
    THEN Answer("wrapped", WrappedDim(name))
    ELSE Unresolved("wrapped")

\* FakeAttentionRecurrent.apply (lines 825-827); iterate is "absent" when
\* the caller does not give it, and apply iterates unless told not to
FakeApply(tr, iterate, kwargs) ==
    Returned(WrappedApply(tr, iterate # "False", kwargs))

\* variant: compute_states lets the wrapped transition iterate
FakeComputeStatesIterating(tr, iterate, kwargs) ==
    IF iterate # "absent" THEN Raised("TypeError")
    ELSE Returned(WrappedApply(tr, TRUE, kwargs))

\* FakeAttentionRecurrent.compute_states (lines 833-835): iterate given
\* twice is a TypeError
FakeComputeStates(tr, iterate, kwargs) ==
    IF iterate # "absent" THEN Raised("TypeError")
    ELSE Returned(WrappedApply(tr, FALSE, kwargs))

\* FakeAttentionRecurrent.take_glimpses (lines 841-843)
FakeTakeGlimpses(tr, kwargs) ==
    Returned([n \in Range(FakeTakeGlimpsesOutputs(tr)) |->
                 Term("take_glimpses", n, kwargs, -1)])

\* FakeAttentionRecurrent.initial_states (lines 845-848)
FakeInitialStates(tr, kwargs) == Returned(WrappedInitialStates(tr, kwargs))

\* FakeAttentionRecurrent.get_dim (lines 854-855)
FakeGetDim(tr, name) == WrappedGetDim(tr, name)

\* the values a caller gives for the names
Given(names, v) == [n \in Range(names) |-> Term("given", n, NoArgs, v)]

NoFakeCall ==
    [method |-> "none", iterate |-> "absent", kwargs |-> NoArgs,
     name |-> "", result |-> Raised("")]

WrapInit ==
    /\ sg = NoGenerator
    /\ fa_call = NoFakeCall

WrapParked == WrapInit

\* SequenceGenerator(readout, transition, attention, language_model=...)
SequenceGeneratorNew(transition, attention, language_model) ==
    /\ sg.wrapper = "none"
    /\ sg' = SequenceGeneratorInit(transition, attention, language_model)
    /\ UNCHANGED fa_call

\* the generator is dropped
SequenceGeneratorForget ==
    /\ sg.wrapper # "none"
    /\ sg' = NoGenerator
    /\ fa_call' = NoFakeCall

\* generator.transition.apply(**kwargs) and compute_states(**kwargs)
FakeApplyCall(method, iterate, v) ==
    /\ sg.wrapper = "FakeAttentionRecurrent"
    /\ LET tr == sg.wrapped
           kwargs == Given(tr.sequences \o tr.states \o tr.contexts, v)
       IN fa_call' =
              [method |-> method, iterate |-> iterate, kwargs |-> kwargs,
               name |-> "",
               result |-> IF method = "apply"
                          THEN FakeApply(tr, iterate, kwargs)
                          ELSE FakeComputeStates(tr, iterate, kwargs)]
    /\ UNCHANGED sg

\* generator.transition.take_glimpses(**kwargs)
FakeTakeGlimpsesCall(v) ==
    /\ sg.wrapper = "FakeAttentionRecurrent"
    /\ LET tr == sg.wrapped
           kwargs == Given(tr.states \o tr.contexts, v)
       IN fa_call' =
              [method |-> "take_glimpses", iterate |-> "absent",
               kwargs |-> kwargs, name |-> "",
               result |-> FakeTakeGlimpses(tr, kwargs)]
    /\ UNCHANGED sg

\* generator.transition.initial_states(batch_size, **kwargs)
FakeInitialStatesCall(v) ==
    /\ sg.wrapper = "FakeAttentionRecurrent"
    /\ LET tr == sg.wrapped
           kwargs == Given(<<"batch_size">> \o tr.contexts, v)
       IN fa_call' =
              [method |-> "initial_states", iterate |-> "absent",
               kwargs |-> kwargs, name |-> "",
               result |-> FakeInitialStates(tr, kwargs)]
    /\ UNCHANGED sg

\* generator.transition.get_dim(name)
FakeGetDimCall(name) ==
    /\ sg.wrapper = "FakeAttentionRecurrent"
    /\ fa_call' =
           [method |-> "get_dim", iterate |-> "absent", kwargs |-> NoArgs,
            name |-> name,
            result |-> LET answer == FakeGetDim(sg.wrapped, name)
                       IN IF answer.ok THEN Returned(answer.value)
                          ELSE Raised("ValueError")]
    /\ UNCHANGED sg

\* the names the wrapper is asked for
WrapNames ==
    {"states", "cells", "context", "inputs", "mask", "outputs", "weights"}

----------------------------------------------------------------------------
(* TrivialEmitter and SoftmaxEmitter (sequence_generators.py:663-748)      *)
(*                                                                         *)
(* A tensor is its shape and its elements in row-major order.  The         *)
(* readouts of the softmax emitter are unknown energies: element k of the  *)
(* flattened readouts is the number k.  A probability is named by the row  *)
(* of the distribution it belongs to and by its category.                  *)

\* largest number of axes of the readouts
MaxRank == 3

\* largest length of an axis, and the largest value of an element
MaxDim == 2

\* largest number of elements of a tensor whose elements are enumerated
MaxOutputs == 4

Tensor(shape, data) == [shape |-> shape, data |-> data]

RECURSIVE Size(_)
Size(shape) == IF shape = <<>> THEN 1 ELSE Head(shape) * Size(Tail(shape))

ShapesOfRank(r) == [1..r -> 1..MaxDim]

\* the shapes of readouts: (batch, features) up to (time, beam, features)
ReadoutShapes == UNION {ShapesOfRank(r) : r \in 1..MaxRank}

\* the shapes of outputs, scalars included
OutputShapes ==
    {sh \in UNION {ShapesOfRank(r) : r \in 0..(MaxRank - 1)} :
        Size(sh) <= MaxOutputs}

ValueTensors(shapes) ==
    UNION {{Tensor(sh, d) : d \in [1..Size(sh) -> 0..MaxDim]} : sh \in shapes}

\* the readouts given to the trivial emitter
TrivialReadouts ==
    ValueTensors({sh \in ReadoutShapes : Size(sh) <= MaxOutputs})

\* outputs that do not come from emit
ConstantOutputs ==
    {Tensor(sh, [k \in 1..Size(sh) |-> MaxDim]) : sh \in OutputShapes}

\* the readouts given to the softmax emitter
Energies(sh) == Tensor(sh, [k \in 1..Size(sh) |-> k - 1])

\* tensor.zeros_like(x)
ZerosLike(x) == Tensor(x.shape, [k \in 1..Size(x.shape) |-> 0])

\* TrivialEmitter.emit (lines 681-683)
TrivialEmit(readouts) == readouts

\* variant: the zeros have the shape of the readouts
TrivialCostLikeReadouts(readouts, outs) == Returned(ZerosLike(readouts))

\* TrivialEmitter.cost (lines 685-687)
TrivialCost(readouts, outs) == Returned(ZerosLike(outs))

\* SoftmaxEmitter.probs (lines 714-718): a softmax over the last axis, one
\* distribution for every index of the leading axes
Probs(readouts) ==
    LET last == readouts.shape[Len(readouts.shape)]
    IN Tensor(readouts.shape,
              [k \in 1..Size(readouts.shape) |->
                  [row |-> (k - 1) \div last, category |-> (k - 1) % last]])

\* line 738: the index into the flattened probabilities of output n
FlatIndex(max_output, flat_outputs, n) ==
    max_output * n + flat_outputs[n + 1]

\* SoftmaxEmitter.cost (lines 728-739): the negative logarithm of the
\* probabilities the indices select, an IndexError for an index beyond
\* the flattened probabilities
SoftmaxCost(readouts, outs) ==
    LET probs == Probs(readouts)
        max_output == probs.shape[Len(probs.shape)]
        flat_outputs == outs.data
        num_outputs == Len(flat_outputs)
        flat_probs == probs.data
    IN IF \E n \in 0..(num_outputs - 1) :
              FlatIndex(max_output, flat_outputs, n) >= Len(flat_probs)
       THEN Raised("IndexError")
       ELSE Returned(Tensor(outs.shape,
               [k \in 1..num_outputs |->
                   [neg_log |->
                       flat_probs[FlatIndex(max_output, flat_outputs,
                                            k - 1) + 1]]]))

NoEmitterCall ==
    [emitter |-> "none", method |-> "none", readouts |-> Tensor(<<>>, <<0>>),
     outputs |-> Tensor(<<>>, <<0>>), emitted |-> FALSE,
     result |-> Raised("")]

EmInit == em_call = NoEmitterCall

EmParked == EmInit

\* TrivialEmitter().emit(readouts)
TrivialEmitCall(readouts) ==
    /\ em_call.emitter = "none"
    /\ em_call' = [emitter |-> "trivial", method |-> "emit",
                   readouts |-> readouts, outputs |-> Tensor(<<>>, <<0>>),
                   emitted |-> FALSE,
                   result |-> Returned(TrivialEmit(readouts))]

\* TrivialEmitter().cost(readouts, outputs); emitted: the outputs are
\* emit(readouts)
TrivialCostCall(readouts, outs, emitted) ==
    /\ em_call.emitter = "none"
    /\ LET used == IF emitted THEN TrivialEmit(readouts) ELSE outs
       IN em_call' = [emitter |-> "trivial", method |-> "cost",
                      readouts |-> readouts, outputs |-> used,
                      emitted |-> emitted,
                      result |-> TrivialCost(readouts, used)]

\* SoftmaxEmitter().cost(readouts, outputs)
SoftmaxCostCall(readouts, outs) ==
    /\ em_call.emitter = "none"
    /\ em_call' = [emitter |-> "softmax", method |-> "cost",
                   readouts |-> readouts, outputs |-> outs,
                   emitted |-> FALSE,
                   result |-> SoftmaxCost(readouts, outs)]

\* the result is dropped
EmitterForget ==
    /\ em_call.emitter # "none"
    /\ em_call' = NoEmitterCall

----------------------------------------------------------------------------
(* Mean.get_aggregator (aggregation.py:90-119)                             *)
(*                                                                         *)
(* The numerator of a batch is a fraction with the denominator Halves, as  *)
(* the sum of the row means of a matrix of two columns is; the             *)
(* accumulator holds its numerator.  The denominator of a batch is a       *)
(* natural number.  Rounding of floating point sums is left out.           *)

\* the denominator of the fractions the numerators are
Halves == 2

\* largest numerator of a batch, in halves
MaxNumerator == 2

\* largest denominator of a batch
MaxDenominator == 2

\* largest number of updates run on one aggregator
MaxUpdates == 3

\* numerator and denominator of the batches of test_param_monitor
\* (test_aggregation.py:51-52): the sum of the row means and the rows
TestBatches == <<[numerator |-> 6, denominator |-> 2],
                 [numerator |-> 39, denominator |-> 3]>>

\* the values of (numerator, denominator) on a batch
Batches ==
    [numerator : 0..MaxNumerator, denominator : 1..MaxDenominator]
        \cup Range(TestBatches)

\* lines 106-107: the accumulators are allocated holding zeros
AggInit ==
    /\ numerator_acc = 0
    /\ denominator_acc = 0
    /\ agg_log = <<>>

AggParked == AggInit

\* initialization_updates (lines 108-109)
InitializationUpdates(acc) == [numerator |-> 0, denominator |-> 0]

\* variant: the accumulators hold the values of the last batch
AccumulationUpdatesLast(acc, batch) ==
    [numerator |-> batch.numerator, denominator |-> batch.denominator]

\* accumulation_updates (lines 110-113)
AccumulationUpdates(acc, batch) ==
    [numerator |-> acc.numerator + batch.numerator,
     denominator |-> acc.denominator + batch.denominator]

\* readout_variable (lines 117-118): numerator_acc / denominator_acc
ReadoutVariable == Quotient(numerator_acc, Halves * denominator_acc)

Accumulators == [numerator |-> numerator_acc, denominator |-> denominator_acc]

\* initialize()
Initialize ==
    /\ Len(agg_log) < MaxUpdates
    /\ numerator_acc' = InitializationUpdates(Accumulators).numerator
    /\ denominator_acc' = InitializationUpdates(Accumulators).denominator
    /\ agg_log' = Append(agg_log, [update |-> "initialize"])

\* accumulate(batch)
Accumulate(batch) ==
    /\ Len(agg_log) < MaxUpdates
    /\ numerator_acc' = AccumulationUpdates(Accumulators, batch).numerator
    /\ denominator_acc' =
           AccumulationUpdates(Accumulators, batch).denominator
    /\ agg_log' = Append(agg_log, [update |-> "accumulate", batch |-> batch])

----------------------------------------------------------------------------
(* JSONLinesLog (log/json.py:36-129)                                       *)
(*                                                                         *)
(* A row is a dictionary that is shared by reference between the cache,    *)
(* the entries the inner logger keeps in memory and the caller; rows are   *)
(* numbered in the order of their creation and rows[r] holds what row r    *)
(* contains now.  The one field a caller writes is 'field'; a row is <<>>  *)
(* when empty and <<v>> when the field holds v.  The file holds what a row *)
(* contained when it was logged.                                           *)
(*                                                                         *)
(* The inner logger is mimir's: it keeps the last maxlen entries in        *)
(* memory and answers logger[k] from them.  Its len is either the number   *)
(* of entries in memory ("memory") or the number of entries logged         *)
(* ("total"); the log is modelled on both.                                 *)

\* largest maxlen of the inner logger
MaxMemory == 2

\* largest time a row is asked for
MaxRow == 2

\* largest number of rows a log creates
MaxRows == 4

\* the values written to the field of a row (test_log.py:13)
FieldValues == {45}

\* JSONLinesLog.__init__ (lines 65-73) and __enter__ (lines 121-122): an
\* open logger without entries, an empty cache, iterations_done 0
NewLog(maxlen, len_kind) ==
    [maxlen |-> maxlen, len_kind |-> len_kind, entries |-> <<>>,
     logged |-> 0, file |-> <<>>, local_cache |-> <<>>, rows |-> <<>>,
     iterations_done |-> 0, open |-> TRUE]

\* len(self.logger)
LoggerLen(l) == IF l.len_kind = "memory" THEN Len(l.entries) ELSE l.logged

\* a deque of at most maxlen elements after an append
Bounded(entries, maxlen) ==
    IF Len(entries) > maxlen THEN Tail(entries) ELSE entries

\* self.logger.log(entry): the entry is written and kept in memory
LoggerLog(l, entry) ==
    [l EXCEPT !.entries = Bounded(Append(@, entry), l.maxlen),
              !.logged = @ + 1,
              !.file = Append(@, [iterations_done |-> entry.iterations_done,
                                  row |-> entry.reports,
                                  reports |-> l.rows[entry.reports + 1]])]

\* inner_logger_len (lines 109-113), the logger being open
InnerLoggerLen(l) == LoggerLen(l)

\* __len__ (lines 115-116)
LogLen(l) == InnerLoggerLen(l) + Len(l.local_cache)

\* variant: flush logs the first row of the cache and leaves it there
FlushKeepsRow(l, iterations_done) ==
    IF iterations_done < 0 THEN [log |-> l, ok |-> FALSE]
    ELSE IF Len(l.local_cache) > 0
    THEN [log |-> LoggerLog(l, [iterations_done |-> iterations_done,
                                reports |-> Head(l.local_cache)]),
          ok |-> TRUE]
    ELSE [log |-> l, ok |-> TRUE]

\* flush (lines 75-80)
Flush(l, iterations_done) ==
    IF iterations_done < 0 THEN [log |-> l, ok |-> FALSE]
    ELSE IF Len(l.local_cache) > 0
    THEN [log |-> [LoggerLog(l, [iterations_done |-> iterations_done,
                                 reports |-> Head(l.local_cache)])
                      EXCEPT !.local_cache = Tail(@)],
          ok |-> TRUE]
    ELSE [log |-> l, ok |-> TRUE]

\* lines 88-89: all rows of the cache but the last are flushed
RECURSIVE FlushCache(_, _, _)
FlushCache(l, total_length, fuel) ==
    IF Len(l.local_cache) > 1 /\ fuel > 0
    THEN FlushCache(Flush(l, total_length - Len(l.local_cache)).log,
                    total_length, fuel - 1)
    ELSE l

\* lines 92-95: count empty rows are created in the cache
Extend(l, count) ==
    [l EXCEPT !.local_cache =
                  @ \o [k \in 1..count |-> Len(l.rows) + k - 1],
              !.rows = @ \o [k \in 1..count |-> <<>>]]

GetRaises(l, error) == [log |-> l, ok |-> FALSE, value |-> error, row |-> -1]

GetReturns(l, r) == [log |-> l, ok |-> TRUE, value |-> "row", row |-> r]

\* variant: every time is accepted
CheckTimeNever(time) == FALSE

\* self._check_time(time) (line 83) raises ValueError for a negative time
CheckTimeRaises(time) == time < 0

\* __getitem__ (lines 82-107)
GetItem(l, time) ==
    IF CheckTimeRaises(time) THEN GetRaises(l, "ValueError")
    ELSE
    LET total_length == InnerLoggerLen(l) + Len(l.local_cache)
        flushed == FlushCache(l, total_length, Len(l.local_cache))
        logger_len == InnerLoggerLen(flushed)
        extended == IF time >= total_length
                    THEN Extend(flushed, time - total_length + 1)
                    ELSE flushed
    IN IF time < logger_len
       THEN IF time + 1 \notin DOMAIN extended.entries
            THEN GetRaises(extended, "ValueError")
            ELSE IF extended.entries[time + 1].iterations_done # time
            THEN GetRaises(extended, "ValueError")
            ELSE GetReturns(extended, extended.entries[time + 1].reports)
       ELSE IF time - logger_len + 1 \notin DOMAIN extended.local_cache
            THEN GetRaises(extended, "IndexError")
            ELSE GetReturns(extended,
                            extended.local_cache[time - logger_len + 1])

\* __iter__ (lines 128-129): self[i] for the i below the len of the start
RECURSIVE IterFrom(_, _, _, _)
IterFrom(l, k, n, got) ==
    IF k >= n THEN [log |-> l, ok |-> TRUE, value |-> "rows", rows |-> got]
    ELSE LET item == GetItem(l, k)
         IN IF item.ok
            THEN IterFrom(item.log, k + 1, n, Append(got, item.row))
            ELSE [log |-> item.log, ok |-> FALSE, value |-> item.value,
                  rows |-> got]

Iter(l) == IterFrom(l, 0, LogLen(l), <<>>)

\* __exit__ (lines 124-126)
Exit(l) ==
    LET flushed == Flush(l, l.iterations_done)
    IN [flushed.log EXCEPT !.open = FALSE]

\* log[time][name] = value on the row a read returned
WriteField(l, r, value) == [l EXCEPT !.rows[r + 1] = <<value>>]

NoLogCall ==
    [op |-> "none", time |-> 0, ok |-> TRUE, value |-> "", row |-> -1,
     rows |-> <<>>, before |-> 0, len |-> 0]

\* what the caller has done so far: the value written through log[t], the
\* times read without an error, and how many rows it has flushed itself
NoHistory ==
    [written |-> [t \in 0..MaxRow |-> <<>>], read |-> {}, flushes |-> 0]

JlInit ==
    /\ jl \in {NewLog(maxlen, kind) :
                  maxlen \in 1..MaxMemory, kind \in {"memory", "total"}}
    /\ jl_call = NoLogCall
    /\ jl_hist = NoHistory

JlParked ==
    /\ jl = NewLog(1, "memory")
    /\ jl_call = NoLogCall
    /\ jl_hist = NoHistory

\* log[time]
GetItemCall(time) ==
    /\ jl.open
    /\ LET item == GetItem(jl, time)
       IN /\ Len(item.log.rows) <= MaxRows
          /\ jl' = item.log
          /\ jl_hist' = IF item.ok
                        THEN [jl_hist EXCEPT !.read = @ \cup {time}]
                        ELSE jl_hist
          /\ jl_call' = [op |-> "getitem", time |-> time, ok |-> item.ok,
                         value |-> item.value, row |-> item.row,
                         rows |-> <<>>, before |-> LogLen(jl),
                   len |-> LogLen(item.log)]

\* log[time]['field'] = value
WriteFieldCall(time, value) ==
    /\ jl.open
    /\ LET item == GetItem(jl, time)
       IN /\ Len(item.log.rows) <= MaxRows
          /\ jl' = IF item.ok THEN WriteField(item.log, item.row, value)
                   ELSE item.log
          /\ jl_hist' = IF item.ok
                        THEN [jl_hist EXCEPT !.read = @ \cup {time},
                                             !.written[time] = <<value>>]
                        ELSE jl_hist
          /\ jl_call' = [op |-> "write", time |-> time, ok |-> item.ok,
                         value |-> item.value, row |-> item.row,
                         rows |-> <<>>, before |-> LogLen(jl),
                   len |-> LogLen(item.log)]

\* log[time] = value: __setitem__ (lines 118-119)
SetItemCall(time) ==
    /\ jl.open
    /\ jl' = jl
    /\ UNCHANGED jl_hist
    /\ jl_call' = [op |-> "setitem", time |-> time, ok |-> FALSE,
                   value |-> "ValueError", row |-> -1, rows |-> <<>>,
                   before |-> LogLen(jl),
                   len |-> LogLen(jl)]

\* list(log)
IterCall ==
    /\ jl.open
    /\ LET it == Iter(jl)
       IN /\ jl' = it.log
          /\ jl_hist' = [jl_hist EXCEPT
                            !.read = @ \cup (0..(Len(it.rows) - 1))]
          /\ jl_call' = [op |-> "iter", time |-> 0, ok |-> it.ok,
                         value |-> it.value, row |-> -1, rows |-> it.rows,
                         before |-> LogLen(jl),
                   len |-> LogLen(it.log)]

\* log.status['iterations_done'] += 1
IterationDone ==
    /\ jl.open
    /\ jl.iterations_done < MaxRow
    /\ jl' = [jl EXCEPT !.iterations_done = @ + 1]
    /\ UNCHANGED jl_hist
    /\ jl_call' = [op |-> "status", time |-> 0, ok |-> TRUE, value |-> "",
                   row |-> -1, rows |-> <<>>, before |-> LogLen(jl),
                   len |-> LogLen(jl)]

\* largest number of calls of flush the user of the log makes itself
MaxFlushes == 1

\* log.flush(iterations_done) called by the user of the log
FlushCall(iterations_done) ==
    /\ jl.open
    /\ jl_hist.flushes < MaxFlushes
    /\ jl' = Flush(jl, iterations_done).log
    /\ jl_hist' = [jl_hist EXCEPT
                      !.flushes = IF Flush(jl, iterations_done).ok
                                  THEN @ + 1 ELSE @]
    /\ jl_call' = [op |-> "flush", time |-> iterations_done,
                   ok |-> Flush(jl, iterations_done).ok,
                   value |-> IF Flush(jl, iterations_done).ok THEN ""
                             ELSE "ValueError",
                   row |-> -1, rows |-> <<>>, before |-> LogLen(jl),
                   len |-> LogLen(Flush(jl, iterations_done).log)]

\* the with block is left
ExitCall ==
    /\ jl.open
    /\ jl' = Exit(jl)
    /\ UNCHANGED jl_hist
    /\ jl_call' = [op |-> "exit", time |-> 0, ok |-> TRUE, value |-> "",
                   row |-> -1, rows |-> <<>>, before |-> LogLen(jl),
                   len |-> LogLen(Exit(jl))]

----------------------------------------------------------------------------
(* Specifications *)

\* a BeamSearch instance that is constructed and never used
BeamParked ==
    /\ BeamInit /\ beam_size = 1 /\ vocab_size = 1 /\ generator = "any"
    /\ ~has_initial_state

\* bricks on which nothing is called
BricksParked == EvParked /\ DimParked /\ WrapParked /\ EmParked

\* monitoring and logging objects on which nothing is called
MonParked == AggParked /\ JlParked

Init ==
    BeamInit /\ generator = "any" /\ SmParked /\ MonParked /\ GenParked /\ BricksParked

Next == BeamNext /\ UNCHANGED <<monVars, smVars, genVars, brickVars>>

\* repeated searches on one BeamSearch instance
Spec == Init /\ [][Next]_vars

\* a started search is run to its end: search is a synchronous loop
FairSpec ==
    Spec /\ WF_vars(SearchStep /\ UNCHANGED <<monVars, smVars, genVars, brickVars>>)

\* what the log-probability computer can return when a symbol may have
\* probability 0: finite costs and numpy.inf
ZeroProbLogprobs == FiniteLogprobs \cup {Inf}

ZeroProbNext ==
    \/ Compile
    \/ \E eol \in Symbols, maxlen \in 0..MaxLength : SearchBegin(eol, maxlen)
    \/ \E logprobs \in LogprobMatrices(ZeroProbLogprobs) : Iterate(logprobs)
    \/ Finish

\* searches whose log-probability computer may return inf
SpecZeroProb ==
    Init /\ [][ZeroProbNext
                /\ UNCHANGED <<monVars, smVars, genVars, brickVars>>]_vars

LineageInit ==
    /\ BeamInit
    /\ generator \in StateGenerators
    /\ SmParked /\ MonParked /\ GenParked /\ BricksParked

LineageNext ==
    \/ Compile
    \/ \E eol \in Symbols, maxlen \in 0..MaxLength : SearchBegin(eol, maxlen)
    \/ Iterate(ComputeLogprobs(generator))
    \/ Finish

\* searches on generators whose log-probabilities are a function of the
\* state
SpecLineage ==
    LineageInit
        /\ [][LineageNext
                /\ UNCHANGED <<monVars, smVars, genVars, brickVars>>]_vars

SmallestInit == SmInit /\ MonParked /\ BeamParked /\ GenParked /\ BricksParked

SmallestNext ==
    (SmallestCall \/ SmallestForget)
        /\ UNCHANGED <<monVars, beamVars, genVars, brickVars>>

\* _smallest on every matrix of the bounds
SpecSmallest == SmallestInit /\ [][SmallestNext]_vars

GenerateInit == GenInit /\ BeamParked /\ SmParked /\ MonParked /\ BricksParked

GenerateNext == GenNext /\ UNCHANGED <<monVars, beamVars, smVars, brickVars>>

\* a generator unrolled step by step
SpecGenerate == GenerateInit /\ [][GenerateNext]_vars

\* the target symbols of the sequences given to cost and evaluate
EvSymbols == {0, 1}

OnesMatrix(sh) == [t \in 0..(sh[1] - 1) |-> [b \in 0..(sh[2] - 1) |-> 1]]

\* evaluate and cost called with every target sequence of one batch element
EvaluateCalls ==
    \E entry \in {"evaluate", "cost"}, n \in 1..MaxTime,
       masked, with_contexts, with_states \in BOOLEAN :
        \E outs \in [0..(n - 1) -> EvSymbols] :
            EvaluateCall(entry, outs,
                         IF masked THEN GivenMask(OnesMatrix(<<n, 1>>))
                         ELSE NoMask,
                         with_contexts, with_states, OnesMatrix(<<n, 1>>))

EvaluateInit ==
    GenInit /\ EvInit /\ DimParked /\ WrapParked /\ EmParked /\ BeamParked
        /\ SmParked /\ MonParked

EvaluateNext ==
    \/ (EvaluateCalls \/ EvaluateForget)
           /\ UNCHANGED <<monVars, beamVars, smVars, genVars, dimVars, wrapVars, emVars>>
    \/ (\E y \in EvSymbols : GenerateStep(y))
           /\ UNCHANGED <<monVars, beamVars, smVars, brickVars>>
    \/ GenerateRestart /\ UNCHANGED <<monVars, beamVars, smVars, brickVars>>

\* a generator evaluated on target sequences and unrolled step by step
SpecEvaluate == EvaluateInit /\ [][EvaluateNext]_vars

\* cost called with every cost matrix and mask of the bounds
CostCalls ==
    \E sh \in Shapes :
        \E raw \in Matrices(sh, 0..MaxCost), msk \in Masks(sh) :
            EvaluateCall("cost", [t \in 0..(sh[1] - 1) |-> 0], msk,
                         TRUE, FALSE, raw)

CostInit ==
    /\ GenInit
    /\ g_cfg.state_names = <<"states">>
    /\ ~g_cfg.lm
    /\ g_cfg.fork
    /\ EvInit
    /\ DimParked
    /\ WrapParked
    /\ EmParked
    /\ BeamParked
    /\ SmParked /\ MonParked

CostNext ==
    (CostCalls \/ EvaluateForget)
        /\ UNCHANGED <<monVars, beamVars, smVars, genVars, dimVars, wrapVars, emVars>>

\* the numbers of cost
SpecCost == CostInit /\ [][CostNext]_vars

DimensionsInit ==
    DimInit /\ EvParked /\ WrapParked /\ EmParked /\ GenParked /\ BeamParked
        /\ SmParked /\ MonParked

DimensionsNext ==
    ((\E name \in DimNames : GetDimCall(name)) \/ PushAllocationConfig
        \/ FeedbackCall)
        /\ UNCHANGED <<monVars, beamVars, smVars, genVars, evVars, wrapVars, emVars>>

\* the dimensions of every generator of DimConfigs asked for and pushed
SpecDimensions == DimensionsInit /\ [][DimensionsNext]_vars

WrapperInit ==
    WrapInit /\ EmParked /\ EvParked /\ DimParked /\ GenParked /\ BeamParked
        /\ SmParked /\ MonParked

WrapperNext ==
    \/ (\E transition \in WrappedTransitions,
           attention, language_model \in BOOLEAN :
            SequenceGeneratorNew(transition, attention, language_model))
           /\ UNCHANGED <<monVars, beamVars, smVars, genVars, evVars, dimVars, emVars>>
    \/ SequenceGeneratorForget
           /\ UNCHANGED <<monVars, beamVars, smVars, genVars, evVars, dimVars, emVars>>
    \/ (\E method \in {"apply", "compute_states"},
           iterate \in {"absent", "True", "False"}, v \in EvSymbols :
            FakeApplyCall(method, iterate, v))
           /\ UNCHANGED <<monVars, beamVars, smVars, genVars, evVars, dimVars, emVars>>
    \/ (\E v \in EvSymbols : FakeTakeGlimpsesCall(v))
           /\ UNCHANGED <<monVars, beamVars, smVars, genVars, evVars, dimVars, emVars>>
    \/ (\E v \in EvSymbols : FakeInitialStatesCall(v))
           /\ UNCHANGED <<monVars, beamVars, smVars, genVars, evVars, dimVars, emVars>>
    \/ (\E name \in WrapNames : FakeGetDimCall(name))
           /\ UNCHANGED <<monVars, beamVars, smVars, genVars, evVars, dimVars, emVars>>

\* generators built with and without attention, the wrapper called
SpecWrapper == WrapperInit /\ [][WrapperNext]_vars

EmitterInit ==
    EmInit /\ WrapParked /\ EvParked /\ DimParked /\ GenParked /\ BeamParked
        /\ SmParked /\ MonParked

EmitterNext ==
    \/ (\E readouts \in TrivialReadouts : TrivialEmitCall(readouts))
           /\ UNCHANGED <<monVars, beamVars, smVars, genVars, evVars, dimVars,
                          wrapVars>>
    \/ (\E readouts \in TrivialReadouts, outs \in ConstantOutputs,
           emitted \in BOOLEAN :
            TrivialCostCall(readouts, outs, emitted))
           /\ UNCHANGED <<monVars, beamVars, smVars, genVars, evVars, dimVars,
                          wrapVars>>
    \/ (\E sh \in ReadoutShapes, outs \in ValueTensors(OutputShapes) :
            SoftmaxCostCall(Energies(sh), outs))
           /\ UNCHANGED <<monVars, beamVars, smVars, genVars, evVars, dimVars,
                          wrapVars>>
    \/ EmitterForget
           /\ UNCHANGED <<monVars, beamVars, smVars, genVars, evVars, dimVars,
                          wrapVars>>

\* the emitters called on every tensor of the bounds
SpecEmitter == EmitterInit /\ [][EmitterNext]_vars

AggregatorInit ==
    AggInit /\ JlParked /\ BricksParked /\ GenParked /\ BeamParked /\ SmParked

AggregatorNext ==
    \/ Initialize
           /\ UNCHANGED <<beamVars, smVars, genVars, brickVars, jlVars>>
    \/ (\E batch \in Batches : Accumulate(batch))
           /\ UNCHANGED <<beamVars, smVars, genVars, brickVars, jlVars>>

\* an aggregator of the Mean scheme initialized and fed with batches
SpecAggregator == AggregatorInit /\ [][AggregatorNext]_vars

LogInit ==
    JlInit /\ AggParked /\ BricksParked /\ GenParked /\ BeamParked /\ SmParked

LogNext ==
    \/ (\E time \in -1..MaxRow : GetItemCall(time))
           /\ UNCHANGED <<beamVars, smVars, genVars, brickVars, aggVars>>
    \/ (\E time \in -1..MaxRow, value \in FieldValues :
            WriteFieldCall(time, value))
           /\ UNCHANGED <<beamVars, smVars, genVars, brickVars, aggVars>>
    \/ (\E time \in -1..MaxRow : SetItemCall(time))
           /\ UNCHANGED <<beamVars, smVars, genVars, brickVars, aggVars>>
    \/ IterCall
           /\ UNCHANGED <<beamVars, smVars, genVars, brickVars, aggVars>>
    \/ IterationDone
           /\ UNCHANGED <<beamVars, smVars, genVars, brickVars, aggVars>>
    \/ (\E iterations_done \in -1..MaxRow : FlushCall(iterations_done))
           /\ UNCHANGED <<beamVars, smVars, genVars, brickVars, aggVars>>
    \/ ExitCall
           /\ UNCHANGED <<beamVars, smVars, genVars, brickVars, aggVars>>

\* a log read, written, iterated and closed
SpecLog == LogInit /\ [][LogNext]_vars

----------------------------------------------------------------------------
(* The scenario: vocabulary {0, 1, 2} with end symbol 2, beam size 2,       *)
(* max_length 5.  The generator fed to the search always favours symbol 0,  *)
(* except that in iteration 2 the best hypothesis (row 0) prefers the end   *)
(* symbol.  Two kinds of generator fit the description:                     *)
(*   "literal": symbol 0 has the strictly smallest negative log-probability *)
(*              of its row; in iteration 2 the end symbol has the strictly  *)
(*              smallest of row 0;                                          *)
(*   "forced":  moreover the end symbol is the least likely symbol of every *)
(*              row that favours symbol 0, and the preference of iteration  *)
(*              2 is forced: log-probability 0 for the end symbol.          *)

\* rows that favour symbol 0
FavourZeroRows(kind) ==
    { r \in [0..2 -> 1..4] :
        /\ r[0] < r[1]
        /\ r[0] < r[2]
        /\ (kind = "forced" => r[1] < r[2]) }

\* rows that prefer the end symbol
PreferEolRows(kind) ==
    { r \in [0..2 -> 0..2] :
        /\ r[2] < r[0]
        /\ r[2] < r[1]
        /\ (kind = "forced" => r[2] = 0) }

\* the matrices the log-probability computer returns in iteration step
ScenarioMatrices(kind, step) ==
    { m \in [0..1 -> FavourZeroRows(kind) \cup PreferEolRows(kind)] :
        /\ m[1] \in FavourZeroRows(kind)
        /\ (step = 2 => m[0] \in PreferEolRows(kind))
        /\ (step # 2 => m[0] \in FavourZeroRows(kind)) }

ScenarioInit ==
    /\ BeamInit
    /\ beam_size = 2
    /\ vocab_size = 3
    /\ generator \in {"literal", "forced"}
    /\ SmParked /\ MonParked
    /\ GenParked
    /\ BricksParked

ScenarioNext ==
    \/ SearchBegin(2, 5)
    \/ \E logprobs \in ScenarioMatrices(generator, i) : Iterate(logprobs)
    \/ Finish

\* searches of the scenario
SpecScenario ==
    ScenarioInit
        /\ [][ScenarioNext /\ UNCHANGED <<monVars, smVars, genVars, brickVars>>]_vars

----------------------------------------------------------------------------
(* Properties of BeamSearch.search *)

\* an iteration of the running search has completed; indexes, outputs,
\* parent_mask and parent_costs are those of the last one
Iterated == pc \in {"loop", "done"} /\ i >= 1

\* C1: once a hypothesis's mask is 0, the output chosen for each of its
\* descendants is eol_symbol and the descendant's cumulative cost is the
\* parent's cost, for finite non-negative log-probabilities.
C1_FinishedFrozen ==
    Iterated =>
        \A j \in Hyps :
            parent_mask[j] = 0 =>
                /\ outputs[j] = eol_symbol
                /\ costs[j] = parent_costs[j]
                /\ mask[j] = 0

\* a finished hypothesis has been carried through a later iteration
C1_Witness ==
    /\ Iterated
    /\ i >= 2
    /\ \E j \in Hyps : parent_mask[j] = 0 /\ mask[j] = 0
    /\ \E j \in Hyps : mask[j] = 1 /\ costs[j] > 0

\* C2: the new cumulative cost of every selected hypothesis is at least the
\* cumulative cost its parent had before the iteration.
C2_CostsNonDecreasing ==
    Iterated => \A j \in Hyps : FLeq(parent_costs[j], costs[j])

\* a hypothesis whose cost grew in an iteration after the first
C2_Witness ==
    /\ Iterated
    /\ i >= 2
    /\ \E j \in Hyps : parent_costs[j] > 0 /\ costs[j] > parent_costs[j]

\* the first iteration has been attempted: it completed or it raised
FirstIterationAttempted == (pc = "loop" /\ i = 1) \/ error_at = 0

\* C3: the first iteration chooses exactly beam_size candidates, all of
\* them from row 0, for any beam size and vocabulary size.
C3_FirstStepRowZero ==
    FirstIterationAttempted =>
        /\ pc = "loop"
        /\ DOMAIN indexes = Hyps
        /\ DOMAIN outputs = Hyps
        /\ \A j \in Hyps : indexes[j] = 0
        /\ \A j, l \in Hyps : j # l => outputs[j] # outputs[l]

\* C5: a started search ends; it never runs more than max_length iterations,
\* and once every mask is 0 the next step is the normal return.
C5_Terminates ==
    /\ [](pc # "idle" => i <= max_length)
    /\ [][(pc = "loop" /\ SumTo(mask, beam_size) = 0)
            => (pc' = "done" /\ i' = i /\ ret'.returned
                /\ ret'.all_outputs = Tail(all_outputs)
                /\ ret'.costs = costs)]_vars
    /\ [][i' # i => (i' = 0 \/ (i' = i + 1 /\ i' <= max_length))]_vars
    /\ ((pc = "loop") ~> (pc \in {"done", "error"}))

\* a search that returned before max_length because every mask was 0
C5_Witness ==
    /\ pc = "done"
    /\ ret.returned
    /\ i >= 1
    /\ i < max_length
    /\ SumTo(mask, beam_size) = 0

\* C6: compiled is False after construction, search compiles only when
\* compiled is False, compiling sets compiled, compiled never returns to
\* False: over any sequence of searches, search compiles at most once.
\* (On a SequenceGenerator, which has no initial_state, compile raises at
\* line 92 and every search compiles again.)
C6_CompiledOnce ==
    /\ (compiled = FALSE /\ search_compiles = 0)
    /\ [](search_compiles <= 1)
    /\ [][compiled => (compiled' /\ search_compiles' = search_compiles)]_vars
    /\ [][search_compiles' # search_compiles
            => (~compiled /\ compiled' /\ pc' = "loop")]_vars
    /\ [][pc' = "loop" => compiled']_vars

\* the same for an instance whose generator has initial_state, the case in
\* which compile returns
CompiledOnceWhenCompiles ==
    /\ [](has_initial_state => search_compiles <= 1)
    /\ [][(has_initial_state /\ compiled)
            => (compiled' /\ search_compiles' = search_compiles)]_vars
    /\ [][(has_initial_state /\ search_compiles' # search_compiles)
            => (~compiled /\ compiled' /\ pc' = "loop")]_vars
    /\ [][pc' = "loop" => compiled']_vars

\* on a generator without initial_state compile never sets compiled, and
\* every search compiles the context computer again and raises
NeverCompiled ==
    ~has_initial_state =>
        /\ ~compiled
        /\ pc \in {"idle", "error"}
        /\ computers \subseteq {Computers[1]}

\* a search that ran on an instance compiled beforehand, without compiling
C6_Witness ==
    /\ pc = "done"
    /\ i >= 1
    /\ compiled
    /\ search_compiles = 0

\* the positions of column j of outs that hold the end symbol
EolPositions(outs, j) == {t \in 1..Len(outs) : outs[t][j] = eol_symbol}

\* the first such position
FirstEol(outs, j) ==
    CHOOSE t \in EolPositions(outs, j) :
        \A u \in EolPositions(outs, j) : t <= u

\* C7: the returned outputs do not hold the seeded initial row; the returned
\* mask of a column is 1 up to and including the first eol_symbol and 0
\* after it, and 1 everywhere when the column has no eol_symbol.
\* (Checked on searches whose log-probability computer may return inf.)
C7_ReturnedMask ==
    (pc = "done") =>
        /\ Len(ret.all_outputs) = i
        /\ Len(ret.mask) = i
        /\ \A t \in 1..i : ret.all_outputs[t] = all_outputs[t + 1]
        /\ \A j \in Hyps : \A t \in 1..i :
              ret.mask[t][j] =
                 IF EolPositions(ret.all_outputs, j) = {} THEN 1
                 ELSE IF t <= FirstEol(ret.all_outputs, j) THEN 1
                 ELSE 0

\* a returned column with outputs before and after its first end symbol,
\* beside a column without end symbol, the seeded row holding the end symbol
C7_Witness ==
    /\ pc = "done"
    /\ i >= 2
    /\ eol_symbol = InitialOutput
    /\ \E j \in Hyps :
          /\ EolPositions(ret.all_outputs, j) # {}
          /\ FirstEol(ret.all_outputs, j) < i
    /\ \E j \in Hyps : EolPositions(ret.all_outputs, j) = {}

\* sum over the positions of column j of a returned mask
MaskLength(m, j) == ColumnSum(m, j, Len(m))

\* the best (first) returned sequence has its end symbol at position 2 and
\* not before, length 3 counted through the mask, mask 1 on positions 0..2
BestEndsAtTwo ==
    /\ Len(ret.all_outputs) = 5
    /\ ret.all_outputs[3][0] = 2
    /\ ret.all_outputs[1][0] # 2
    /\ ret.all_outputs[2][0] # 2
    /\ MaskLength(ret.mask, 0) = 3
    /\ \A t \in 1..3 : ret.mask[t][0] = 1

\* C8 as stated: whenever the log-probabilities always favour symbol 0 and
\* the best hypothesis prefers symbol 2 at step 2, the best returned
\* sequence ends at position 2 with length 3 and mask [1, 1, 1].
C8_ScenarioAsStated == (pc = "done") => BestEndsAtTwo

\* C8 amended: when moreover the end symbol is the least likely symbol of
\* every row that favours symbol 0 and the preference at step 2 is forced
\* (log-probability 0), the best returned sequence ends at position 2 with
\* length 3 and mask [1, 1, 1].
C8_ScenarioForced ==
    (pc = "done" /\ generator = "forced") => BestEndsAtTwo

\* a finished search on a forced generator whose second sequence never ended
C8_Witness ==
    /\ pc = "done"
    /\ generator = "forced"
    /\ beam_size = 2 /\ vocab_size = 3 /\ eol_symbol = 2 /\ max_length = 5
    /\ i = 5
    /\ ret.all_outputs[3][0] = 2
    /\ EolPositions(ret.all_outputs, 1) = {}
    /\ ret.costs[0] < ret.costs[1]

----------------------------------------------------------------------------
(* Properties of BeamSearch._smallest *)

\* the call is one that an iteration after the first makes: the whole
\* matrix, k its number of rows, more columns than rows
SmLaterIteration == ~sm_first /\ sm_k = sm_rows /\ sm_cols > sm_k

\* the (row, column) pairs of a result
SmPairs(r) == {<<r.rows[a], r.cols[a]>> : a \in DOMAIN r.rows}

\* C4: in an iteration after the first, _smallest returns exactly beam_size
\* (row, column) pairs, their values are the beam_size smallest entries of
\* the whole matrix in ascending order, and each value is the entry at its
\* (row, column).
C4_SmallestGlobal ==
    (sm_pc \in {"done", "error"} /\ SmLaterIteration) =>
        /\ sm_pc = "done"
        /\ DOMAIN sm_result.rows = 0..(sm_k - 1)
        /\ DOMAIN sm_result.cols = 0..(sm_k - 1)
        /\ DOMAIN sm_result.values = 0..(sm_k - 1)
        /\ Cardinality(SmPairs(sm_result)) = sm_k
        /\ \A a \in 0..(sm_k - 1) :
              /\ sm_result.rows[a] \in 0..(sm_rows - 1)
              /\ sm_result.cols[a] \in 0..(sm_cols - 1)
              /\ sm_result.values[a] =
                    sm_matrix[sm_result.rows[a]][sm_result.cols[a]]
        /\ \A a, b \in 0..(sm_k - 1) :
              a < b => SortLeq(sm_result.values[a], sm_result.values[b])
        /\ \A a \in 0..(sm_k - 1) :
              \A r \in 0..(sm_rows - 1), c \in 0..(sm_cols - 1) :
                 <<r, c>> \notin SmPairs(sm_result)
                    => SortLeq(sm_result.values[a], sm_matrix[r][c])

\* a result taken from two rows, with distinct values and an entry left out
C4_Witness ==
    /\ sm_pc = "done"
    /\ SmLaterIteration
    /\ sm_k >= 2
    /\ sm_result.rows[0] # sm_result.rows[1]
    /\ sm_result.values[0] < sm_result.values[1]
    /\ sm_result.rows[0] = 1
    /\ \E c \in 0..(sm_cols - 1) : sm_matrix[0][c] = Inf

----------------------------------------------------------------------------
(* Properties of BaseSequenceGenerator.generate *)

\* the position of the first application of op among the last step's calls
CallIndex(op) ==
    CHOOSE a \in DOMAIN g_calls :
        g_calls[a].op = op /\ \A b \in DOMAIN g_calls :
                                  g_calls[b].op = op => a <= b

\* the results of the applications of op in the last step
CallResults(op) ==
    UNION {g_calls[a].results : a \in {b \in DOMAIN g_calls : g_calls[b].op = op}}

\* the values of the last step, taken from the list it returned
RetStates == {g_ret[a] : a \in 1..Len(StateNames)}
RetOutput == g_ret[Len(StateNames) + 1]
RetGlimpses ==
    {g_ret[a] : a \in (Len(StateNames) + 2)..(Len(StateNames) + 1 + Len(GlimpseNames))}
RetCost == g_ret[Len(g_ret)]

\* the readout the last step's output was emitted from
RetReadout == RetOutput.args["readouts"]

\* C9: in every generation step the glimpses g_i are taken from the
\* previous states and glimpses and the contexts; readout, emission and cost
\* use the previous states and the new glimpses and no new state; the new
\* states are computed after the output has been emitted.
C9_StepDependencies ==
    (g_step >= 1) =>
        /\ \A g \in RetGlimpses :
              /\ g.op = "take_glimpses"
              /\ \A n \in Range(StateNames) \cup Range(GlimpseNames) :
                    g.args[n] = g_in[n]
              /\ \A n \in Range(ContextNames) : g.args[n] = GenContexts[n]
              /\ \A n \in DOMAIN g.args : g.args[n] \notin RetStates
        /\ RetReadout.op = "readout"
        /\ \A n \in Range(StateNames) : RetReadout.args[n] = g_in[n]
        /\ \A n \in Range(GlimpseNames) :
              /\ RetReadout.args[n] \in RetGlimpses
              /\ RetReadout.args[n].out = n
        /\ \A n \in DOMAIN RetReadout.args : RetReadout.args[n] \notin RetStates
        /\ RetOutput.op = "emit"
        /\ RetCost.op = "cost"
        /\ RetCost.args["readouts"] = RetReadout
        /\ RetCost.args["outputs"] = RetOutput
        /\ \A s \in RetStates :
              /\ s.op = "compute_states"
              /\ \A n \in Range(StateNames) : s.args[n] = g_in[n]
              /\ \A n \in Range(GlimpseNames) : s.args[n] \in RetGlimpses
        /\ CallResults("take_glimpses") = RetGlimpses
        /\ CallResults("compute_states") = RetStates
        /\ CallResults("emit") = {RetOutput}
        /\ CallIndex("take_glimpses") < CallIndex("readout")
        /\ CallIndex("readout") < CallIndex("emit")
        /\ CallIndex("emit") < CallIndex("cost")
        /\ CallIndex("emit") < CallIndex("compute_states")

\* a second step of a generator with attention: its previous states and
\* glimpses are those the first step computed
C9_Witness ==
    /\ g_step = 2
    /\ g_cfg.attention
    /\ \A n \in Range(StateNames) : g_in[n].op = "compute_states"
    /\ \A n \in Range(GlimpseNames) : g_in[n].op = "take_glimpses"
    /\ RetGlimpses # {}

\* C10: the readout of a step is computed from the feedback of the previous
\* output, the new states from the (forked) feedback of the newly emitted
\* output, and the step returns new states, new output, new glimpses and new
\* cost in the order of generate's output names.
C10_FeedbackAndOrder ==
    (g_step >= 1) =>
        /\ RetReadout.args["feedback"].op = "feedback"
        /\ RetReadout.args["feedback"].args["outputs"] = g_in["outputs"]
        /\ \A s \in RetStates :
              IF g_cfg.fork
              THEN \A n \in Range(ForkNames) :
                      /\ s.args[n].op = "fork"
                      /\ s.args[n].args["feedback"].op = "feedback"
                      /\ s.args[n].args["feedback"].args["outputs"] = RetOutput
              ELSE /\ s.args["feedback"].op = "feedback"
                   /\ s.args["feedback"].args["outputs"] = RetOutput
        /\ RetOutput # g_in["outputs"]
        /\ Len(g_ret) = Len(GenerateOutputs)
        /\ \A a \in DOMAIN g_ret : g_ret[a].out = GenerateOutputs[a]
        /\ \A a \in 1..Len(StateNames) : g_ret[a].op = "compute_states"
        /\ \A n \in Range(GlimpseNames) : g_cur[n].op = "take_glimpses"
        /\ \A n \in Range(GenerateStates) :
              /\ g_cur[n].out = n
              /\ g_cur[n] \in Range(g_ret)

\* a second step with a fork: the readout was fed the output the first step
\* emitted, the states the output the second step emitted
C10_Witness ==
    /\ g_step = 2
    /\ g_cfg.fork
    /\ g_cfg.attention
    /\ g_in["outputs"].op = "emit"
    /\ g_in["outputs"].draw # RetOutput.draw
    /\ RetReadout.args["feedback"].args["outputs"] = g_in["outputs"]

----------------------------------------------------------------------------
(* Properties of BaseSequenceGenerator.evaluate and cost *)

\* expression x is expression e or is used to compute it
RECURSIVE Uses(_, _)
Uses(e, x) ==
    \/ e = x
    \/ \E n \in DOMAIN e.args : Uses(e.args[n], x)

LastTime == Cardinality(Times(ev_outputs)) - 1

\* the last call of evaluate has computed its readouts (lines 284-286): it
\* returned, or it raised at its return statement
ReadoutsComputed == ev_pc = "done" \/ ev_error = "TypeError"

TargetFeedback(t) == Feedback(Target(t, ev_outputs[t]))

\* C11: in cost evaluation the readout of time step t is given the feedback
\* of target output t - 1, the feedback of the initial output at step 0,
\* never the feedback of target output t or a later one; the feedback of
\* the last target output is used by no readout.
C11_ShiftedFeedback ==
    ReadoutsComputed =>
        \A t \in Times(ev_outputs) :
            /\ ev_readouts[t].op = "readout"
            /\ ev_readouts[t].args["feedback"] = ev_feedback[t]
            /\ t >= 1 => ev_feedback[t] = TargetFeedback(t - 1)
            /\ t = 0 => /\ ev_feedback[t].op = "feedback"
                        /\ ev_feedback[t].args["outputs"].op
                              = "initial_outputs"
            /\ \A u \in Times(ev_outputs) :
                  u >= t => ~Uses(ev_readouts[t], TargetFeedback(u))
            /\ ~Uses(ev_readouts[t], TargetFeedback(LastTime))

\* an evaluation of a sequence of two different symbols: the readout of
\* step 1 uses the feedback of target 0
C11_Witness ==
    /\ ReadoutsComputed
    /\ LastTime >= 1
    /\ ev_outputs[0] # ev_outputs[1]
    /\ g_cfg.attention
    /\ Uses(ev_readouts[1], TargetFeedback(0))

\* the output the step that emitted e was given
PrevOutput(e) == e.args["readouts"].args["feedback"].args["outputs"]

\* the position in the sequence of the emitted output e
RECURSIVE EmitPos(_)
EmitPos(e) ==
    IF PrevOutput(e).op = "emit" THEN 1 + EmitPos(PrevOutput(e)) ELSE 0

\* the emitted output e and those before it are the targets of evaluate
RECURSIVE FollowsTargets(_)
FollowsTargets(e) ==
    IF e.op # "emit" THEN TRUE
    ELSE /\ EmitPos(e) \in Times(ev_outputs)
         /\ e.draw = ev_outputs[EmitPos(e)]
         /\ FollowsTargets(PrevOutput(e))

\* expression e with every emitted output forced to the target it equals
RECURSIVE Forced(_)
Forced(e) ==
    IF e.op = "emit" THEN Target(EmitPos(e), e.draw)
    ELSE [op |-> e.op, out |-> e.out,
          args |-> [n \in DOMAIN e.args |-> Forced(e.args[n])],
          draw |-> e.draw]

ForcedDict(d) == [n \in DOMAIN d |-> Forced(d[n])]

\* the unroll and the evaluation both started from the initial states
SameStart ==
    /\ InitialStates.ok
    /\ \A n \in Range(StateNames) : n \notin DOMAIN ev_kwargs

\* the unroll has made a step whose outputs are a prefix of the targets of
\* an evaluation that had no mask and started from the same states
StepOfEvaluated ==
    /\ ReadoutsComputed
    /\ g_step >= 1
    /\ ~ev_mask.given
    /\ SameStart
    /\ FollowsTargets(RetOutput)

\* C12: the unroll of generate with its outputs forced to the target
\* sequence gives, at step i, the previous states, the glimpses and the
\* feedback that evaluate gives to the readout at position i - 1, for a
\* generator that has initial states to unroll from (one without a language
\* model).
C12_StepEqualsBulk ==
    StepOfEvaluated =>
        /\ ForcedDict(DictSubset(g_in, StateNames)) = ev_states[g_step - 1]
        /\ ForcedDict(DictSubset(RetReadout.args, GlimpseNames))
              = ev_glimpses[g_step - 1]
        /\ Forced(RetReadout.args["feedback"]) = ev_feedback[g_step - 1]
        /\ \A n \in Range(StateNames) \cup Range(GlimpseNames)
                     \cup {"feedback"} :
              Forced(RetReadout.args[n]) = ev_readouts[g_step - 1].args[n]

\* the second step of an unroll with attention that follows a sequence of
\* two targets
C12_Witness ==
    /\ StepOfEvaluated
    /\ ~g_cfg.lm
    /\ g_cfg.attention
    /\ g_step = 2
    /\ LastTime = 1
    /\ ev_outputs[0] # ev_outputs[1]
    /\ ev_states[1] = ForcedDict(DictSubset(g_in, StateNames))
    /\ \E n \in Range(StateNames) : ev_states[1][n].op = "compute_states"

\* C13: when cost is called with the contexts of a generator whose
\* transition declares contexts, evaluate receives every context and the
\* readout of every step is computed from the previous states, the glimpses,
\* those contexts and the shifted feedback.
C13_ContextsReachEvaluate ==
    (/\ ev_pc # "idle"
     /\ ev_entry = "cost"
     /\ g_cfg.fork
     /\ ContextNames # <<>>
     /\ \A n \in Range(ContextNames) : n \in DOMAIN ev_given) =>
        /\ \A n \in Range(ContextNames) :
              /\ n \in DOMAIN ev_kwargs
              /\ ev_kwargs[n] = ev_given[n]
        /\ ev_pc = "done"
        /\ \A t \in Times(ev_outputs) :
              /\ \A n \in Range(ContextNames) :
                    ev_readouts[t].args[n] = ev_given[n]
              /\ \A n \in Range(StateNames) :
                    ev_readouts[t].args[n] = ev_states[t][n]
              /\ \A n \in Range(GlimpseNames) :
                    ev_readouts[t].args[n] = ev_glimpses[t][n]
              /\ ev_readouts[t].args["feedback"] = ev_feedback[t]

BatchOf(matrix) == DOMAIN matrix[0]

\* the sum over time of the masked costs of batch position b
SequenceSum(b) ==
    SumTo([t \in Times(ev_raw) |-> ev_raw[t][b] * ev_mask.m[t][b]],
          Cardinality(Times(ev_raw)))

\* the cost the last call returned is the mean over the batch of the sums
\* over time of the masked per-step costs
MaskedMean ==
    /\ \A t \in Times(ev_raw) : \A b \in BatchOf(ev_raw) :
          /\ ev_mask.m[t][b] = 0 => ev_costs[t][b] = 0
          /\ ev_mask.m[t][b] = 1 => ev_costs[t][b] = ev_raw[t][b]
    /\ ev_cost.den = Cardinality(BatchOf(ev_raw))
    /\ ev_cost.num =
          SumTo([b \in BatchOf(ev_raw) |-> SequenceSum(b)],
                Cardinality(BatchOf(ev_raw)))

\* a call of cost with a mask on a generator that takes it to line 256
MaskedCostCalled ==
    /\ ev_pc # "idle"
    /\ ev_entry = "cost"
    /\ ev_mask.given
    /\ ev_error \notin {"KeyError", "AttributeError"}

\* whenever cost returns, it returns the masked mean
MaskedMeanWhenReturned ==
    (ev_pc = "done" /\ ev_entry = "cost" /\ ev_mask.given) => MaskedMean

\* C14: with a mask, the cost of a position whose mask is 0 contributes 0
\* and cost returns the mean over the batch of the sums over time of the
\* masked per-step costs.
C14_MaskedMean ==
    MaskedCostCalled => (ev_pc = "done" /\ MaskedMean)

\* a cost of two sequences of two steps in which a non-zero cost is masked
C14_Witness ==
    /\ ev_pc = "done"
    /\ ev_entry = "cost"
    /\ ev_mask.given
    /\ Cardinality(Times(ev_raw)) = 2
    /\ Cardinality(BatchOf(ev_raw)) = 2
    /\ ev_mask.m[1][0] = 0
    /\ ev_raw[1][0] > 0
    /\ ev_mask.m[0][0] = 1
    /\ ev_raw[0][0] > 0
    /\ ev_cost.num < SumAll(ev_raw)

\* the number of valid sequence elements of the last call
ValidElements ==
    IF ev_mask.given THEN SumAll(ev_mask.m)
    ELSE Cardinality(Times(ev_raw)) * Cardinality(BatchOf(ev_raw))

\* C15: per_sequence_element is the sum of all per-step costs divided by
\* the number of valid sequence elements: the sum of the mask, or every
\* position of the sequences when no mask is given.
C15_PerSequenceElement ==
    (ev_pc = "done" /\ ev_entry = "cost") =>
        ev_aux.num * ValidElements = SumAll(ev_costs) * ev_aux.den

----------------------------------------------------------------------------
(* Properties of the dimensions *)

DimTransitionNames ==
    Range(DimStateNames(d_cfg)) \cup Range(DimContextNames(d_cfg))
        \cup Range(DimGlimpseNames(d_cfg))

\* C16 as stated: names of the transition are answered by the transition,
\* then 'outputs' by the readout, every other name by the base lookup.
C16_GetDimAsStated ==
    (d_call.name # "") =>
        IF d_call.name \in DimTransitionNames
        THEN d_call.answer.owner = "transition"
        ELSE IF d_call.name = "outputs"
        THEN d_call.answer.owner = "readout"
        ELSE d_call.answer.owner = "base" /\ ~d_call.answer.ok

\* C16: get_dim answers a name of the transition's states, contexts or
\* glimpses by the transition (also the name 'outputs'), otherwise
\* 'outputs' by the readout, otherwise a state name of the language model
\* of a generator that has one by the language model, otherwise by the base
\* lookup, which is an error and no value.
C16_GetDimOrder ==
    (d_call.name # "") =>
        IF d_call.name \in DimTransitionNames
        THEN /\ d_call.answer.owner = "transition"
             /\ d_call.answer.ok
             /\ d_call.answer.value = WrappedDim(d_call.name)
        ELSE IF d_call.name = "outputs"
        THEN d_call.answer.owner = "readout"
        ELSE IF d_cfg.lm /\ d_call.name \in Range(DimLmStateNames(d_cfg))
        THEN d_call.answer.owner = "language_model" /\ d_call.answer.ok
        ELSE /\ d_call.answer.owner = "base"
             /\ ~d_call.answer.ok
             /\ d_call.answer.value = Unset

\* 'outputs' asked of a generator whose transition has a state of that name
C16_Witness ==
    /\ d_call.name = "outputs"
    /\ "outputs" \in DimTransitionNames
    /\ d_call.answer.owner = "transition"
    /\ d_cfg.lm

\* the calls of the k-th push, in order
PushSegment(k) == SubSeq(d_pushes, 5 * (k - 1) + 1, 5 * k)

NoPushRaised == \A k \in DOMAIN d_pushes : d_pushes[k] # "error"

\* C17: a push configures the transition, then the source dimensions of the
\* readout and the readout, then the input and output dimensions of the
\* fork; a second push without any change of a component resolves the same
\* readout.source_dims, fork.input_dim and fork.output_dims as the first.
C17_PushTwice ==
    NoPushRaised =>
        /\ \A k \in DOMAIN d_resolved :
              PushSegment(k) = <<"transition", "readout.source_dims",
                                 "readout", "fork.input_dim",
                                 "fork.output_dims">>
        /\ Len(d_resolved) >= 2 => d_resolved[2] = d_resolved[1]

----------------------------------------------------------------------------
(* Properties of FakeAttentionRecurrent *)

\* what the wrapper has returned is what the wrapped transition returns
\* for the same arguments
FakeReturnsWrapped ==
    LET tr == sg.wrapped
        result == fa_call.result
    IN /\ fa_call.method = "take_glimpses" =>
              result.ok /\ DOMAIN result.value = {}
       /\ fa_call.method = "apply" =>
              /\ result.ok
              /\ result.value =
                     WrappedApply(tr, fa_call.iterate # "False",
                                  fa_call.kwargs)
       /\ (fa_call.method = "compute_states"
              /\ fa_call.iterate = "absent") =>
              /\ result.ok
              /\ result.value = WrappedApply(tr, FALSE, fa_call.kwargs)
       /\ fa_call.method = "initial_states" =>
              /\ result.ok
              /\ result.value = WrappedInitialStates(tr, fa_call.kwargs)
       /\ fa_call.method = "get_dim" =>
              LET answer == WrappedGetDim(tr, fa_call.name)
              IN /\ result.ok = answer.ok
                 /\ answer.ok => result.value = answer.value

\* C18 as stated: a SequenceGenerator built without attention wraps its
\* transition in FakeAttentionRecurrent; the wrapper has no glimpse names,
\* take_glimpses yields no values, apply, compute_states, initial_states and
\* get_dim return what the wrapped transition returns, and the state names
\* of the generator are the wrapped state names and 'outputs'.
C18_AsStated ==
    (sg.wrapper # "none" /\ ~sg.attention) =>
        /\ sg.wrapper = "FakeAttentionRecurrent"
        /\ FakeGlimpseNames(sg.wrapped) = <<>>
        /\ SgGlimpseNames(sg) = <<>>
        /\ FakeReturnsWrapped
        /\ SgGenerateStates(sg) = sg.wrapped.states \o <<"outputs">>

\* C18: a SequenceGenerator built without attention wraps its transition in
\* FakeAttentionRecurrent; the wrapper has no glimpse names, take_glimpses
\* yields no values, apply, compute_states, initial_states and get_dim
\* return what the wrapped transition returns for the same arguments
\* (compute_states: what one step of the wrapped apply returns), and the
\* state names of the generator are the wrapped state names and 'outputs',
\* followed by the state names of the language model when it has one.
C18_FakeAttentionPassThrough ==
    (sg.wrapper # "none" /\ ~sg.attention) =>
        /\ sg.wrapper = "FakeAttentionRecurrent"
        /\ FakeGlimpseNames(sg.wrapped) = <<>>
        /\ SgGlimpseNames(sg) = <<>>
        /\ FakeReturnsWrapped
        /\ SgGenerateStates(sg) =
               sg.wrapped.states \o <<"outputs">>
                   \o (IF sg.language_model THEN <<"lm_states">> ELSE <<>>)

\* compute_states has returned the step of a transition with two states
\* and a context, in a generator built without attention
C18_Witness ==
    /\ sg.wrapper # "none"
    /\ ~sg.attention
    /\ sg.language_model
    /\ sg.wrapped.states = <<"states", "cells">>
    /\ sg.wrapped.contexts = <<"context">>
    /\ fa_call.method = "compute_states"
    /\ fa_call.iterate = "absent"
    /\ fa_call.result.ok
    /\ DOMAIN fa_call.result.value = {"states", "cells"}

----------------------------------------------------------------------------
(* Properties of the emitters *)

\* C19: the trivial emitter's emit returns the readouts unchanged, and its
\* cost, on emit(readouts) as on any other outputs, is a tensor of the shape
\* of the outputs whose every element is zero.
C19_TrivialEmitter ==
    em_call.emitter = "trivial" =>
        LET result == em_call.result
        IN /\ result.ok
           /\ em_call.method = "emit" => result.value = em_call.readouts
           /\ em_call.method = "cost" =>
                  /\ em_call.emitted => em_call.outputs = em_call.readouts
                  /\ result.value.shape = em_call.outputs.shape
                  /\ Len(result.value.data) = Size(em_call.outputs.shape)
                  /\ \A k \in DOMAIN result.value.data :
                         result.value.data[k] = 0

\* the cost of emit(readouts) for a matrix of readouts that are not zero
C19_Witness ==
    /\ em_call.emitter = "trivial"
    /\ em_call.method = "cost"
    /\ em_call.emitted
    /\ em_call.outputs.shape = <<2, 2>>
    /\ \A k \in DOMAIN em_call.outputs.data : em_call.outputs.data[k] > 0
    /\ em_call.result.ok
    /\ em_call.result.value.data = <<0, 0, 0, 0>>

\* the rank of the outputs differs from the rank of the readouts by more
\* than one
RanksApart(readouts, outs) ==
    \/ Len(readouts.shape) - Len(outs.shape) > 1
    \/ Len(outs.shape) - Len(readouts.shape) > 1

\* an axis of the outputs is not as long as the same axis of the readouts
LeadingMismatch(readouts, outs) ==
    \E k \in DOMAIN outs.shape :
        k < Len(readouts.shape) /\ outs.shape[k] # readouts.shape[k]

\* C20: the softmax emitter's cost called with outputs whose rank differs
\* from the rank of the readouts by more than one, or whose leading
\* dimensions are not those of the readouts, fails instead of returning a
\* cost.
C20_MismatchFails ==
    (/\ em_call.emitter = "softmax"
     /\ em_call.method = "cost"
     /\ \/ RanksApart(em_call.readouts, em_call.outputs)
        \/ LeadingMismatch(em_call.readouts, em_call.outputs))
        => ~em_call.result.ok

----------------------------------------------------------------------------
(* Properties of the feedback bricks *)

\* C21: LookupFeedback.feedback returns an embedding exactly when the
\* brick's output_dim is 0; after the readout's push output_dim is the
\* dimension the emitter has for 'outputs', so with an emitter whose outputs
\* have a dimension other than 0 the call fails.
C21_LookupFeedbackScalar ==
    (d_feedback.outcome.called /\ d_cfg.feedback = "lookup") =>
        /\ d_feedback.outcome.ok <=> d_feedback.output_dim = 0
        /\ d_feedback.pushed =>
               d_feedback.output_dim =
                   EmitterGetDim(d_cfg, d_attr, "outputs").value
        /\ (d_feedback.pushed
              /\ EmitterGetDim(d_cfg, d_attr, "outputs").value # 0) =>
               ~d_feedback.outcome.ok

\* after the push, the lookup feedback of a generator with a trivial
\* emitter has failed on the assertion
C21_Witness ==
    /\ d_feedback.outcome.called
    /\ d_cfg.feedback = "lookup"
    /\ d_cfg.emitter = "trivial"
    /\ d_feedback.pushed
    /\ d_feedback.output_dim = ReadoutDim
    /\ d_feedback.outcome.value = "AssertionError"

----------------------------------------------------------------------------
(* Properties of the Mean aggregator *)

\* the position of the last initialization in the log, 0 if there is none
LastInitialization ==
    LET inits == {k \in DOMAIN agg_log : agg_log[k].update = "initialize"}
    IN IF inits = {} THEN 0
       ELSE CHOOSE k \in inits : \A j \in inits : j <= k

\* the batches accumulated since the last initialization
BatchesSince ==
    [k \in 1..(Len(agg_log) - LastInitialization) |->
        agg_log[LastInitialization + k].batch]

SumNumerators(batches) ==
    SumTo([k \in 0..(Len(batches) - 1) |-> batches[k + 1].numerator],
          Len(batches))

SumDenominators(batches) ==
    SumTo([k \in 0..(Len(batches) - 1) |-> batches[k + 1].denominator],
          Len(batches))

\* C22: once the initialization updates have run, the readout of a Mean
\* aggregator is the sum of the numerators over the sum of the denominators
\* of the batches accumulated since the last initialization, batches from
\* before it contribute nothing, and for the two batches of
\* test_param_monitor the readout is 4.5.
C22_MeanReadout ==
    LastInitialization > 0 =>
        /\ numerator_acc = SumNumerators(BatchesSince)
        /\ denominator_acc = SumDenominators(BatchesSince)
        /\ ReadoutVariable =
               Quotient(SumNumerators(BatchesSince),
                        Halves * SumDenominators(BatchesSince))
        /\ BatchesSince = <<>> =>
               numerator_acc = 0 /\ denominator_acc = 0
        /\ BatchesSince = TestBatches =>
               /\ ReadoutVariable.den # 0
               /\ 2 * ReadoutVariable.num = 9 * ReadoutVariable.den

\* the two batches of test_param_monitor accumulated after initialization
C22_Witness ==
    /\ LastInitialization = 1
    /\ BatchesSince = TestBatches
    /\ ReadoutVariable = Quotient(45, 10)

\* a batch accumulated before an initialization no longer contributes
C22_ResetWitness ==
    /\ LastInitialization = 2
    /\ agg_log[1].update = "accumulate"
    /\ agg_log[1].batch.numerator > 0
    /\ Len(agg_log) = 3
    /\ numerator_acc = agg_log[3].batch.numerator
    /\ agg_log[3].batch.numerator = 0

----------------------------------------------------------------------------
(* Properties of JSONLinesLog *)

\* the last call read log[time], for a read or for a write of the field
ReadCall == jl_call.op \in {"getitem", "write"}

\* the rows were flushed by reads and by the exit only: the user of the log
\* has not called flush itself
ReadsAndExitOnly == jl_hist.flushes = 0

\* a read at or beyond the end of the log has created the rows up to its
\* time and returned an empty row
ReadCreatesRows ==
    (jl_call.op = "getitem" /\ jl_call.time >= jl_call.before) =>
        /\ jl_call.ok
        /\ jl.rows[jl_call.row + 1] = <<>>
        /\ jl_call.len = jl_call.time + 1

\* a read of a row returns the field written through it before
ReadReturnsWritten ==
    (jl_call.op = "getitem" /\ jl_call.time >= 0
        /\ jl_hist.written[jl_call.time] # <<>>) =>
        /\ jl_call.ok
        /\ jl.rows[jl_call.row + 1] = jl_hist.written[jl_call.time]

\* the rows 0..n have been read, and no other
RowsRead(n) == jl_hist.read = 0..n

\* with the rows 0..n read, the log has n+1 rows and iterating yields them
LenAfterReads ==
    \A n \in 0..MaxRow :
        (jl.open /\ RowsRead(n)) =>
            /\ LogLen(jl) = n + 1
            /\ jl_call.op = "iter" =>
                   jl_call.ok /\ Len(jl_call.rows) = n + 1

\* C23 as stated: inside the context of a log whose rows are flushed by
\* reads only, a read at a time at or beyond the end creates the rows up to
\* it and returns an empty row, a field written
\* through log[t] is returned by every later read of log[t], and with the
\* rows 0..n read len(log) is n+1 and iterating yields n+1 rows.
C23_AsStated ==
    ReadsAndExitOnly =>
        (ReadCreatesRows /\ ReadReturnsWritten /\ LenAfterReads)

\* the inner logger has been given no more entries than it keeps in memory
AllInMemory == jl.logged <= jl.maxlen

\* C23: the same, as long as no more than maxlen rows have been flushed to
\* the inner logger.
C23_LogReads ==
    (ReadsAndExitOnly /\ AllInMemory) =>
        (ReadCreatesRows /\ ReadReturnsWritten /\ LenAfterReads)

\* with maxlen 2, row 0 was written, rows 1 and 2 were read, which flushed
\* rows 0 and 1, and the read of row 0 returns the field
C23_Witness ==
    /\ ReadsAndExitOnly
    /\ jl.maxlen = 2
    /\ jl.logged = 2
    /\ jl_hist.written[0] # <<>>
    /\ RowsRead(2)
    /\ jl_call.op = "getitem"
    /\ jl_call.time = 0
    /\ jl_call.ok
    /\ jl.rows[jl_call.row + 1] = jl_hist.written[0]
    /\ LogLen(jl) = 3

\* C24: a read at a negative time raises ValueError and leaves the log as
\* it was: no row is created, flushed or removed; an assignment log[t] =
\* value raises ValueError for every t and changes nothing.
C24_RefusedCalls ==
    [][((jl_call'.op = "getitem" /\ jl_call'.time < 0)
           \/ jl_call'.op = "setitem") =>
          /\ ~jl_call'.ok
          /\ jl_call'.value = "ValueError"
          /\ jl' = jl
          /\ jl_hist' = jl_hist]_vars

\* log[-1] was refused on a log with a flushed row and a row in the cache
C24_Witness ==
    /\ jl_call.op = "getitem"
    /\ jl_call.time = -1
    /\ ~jl_call.ok
    /\ jl_call.value = "ValueError"
    /\ jl.logged = 1
    /\ Len(jl.local_cache) = 1

\* every record of the file carries the index of its row
RecordsIndexed ==
    \A k \in DOMAIN jl.file : jl.file[k].iterations_done = jl.file[k].row

\* the records of the file are in increasing order of their rows
RecordsIncreasing ==
    \A j, k \in DOMAIN jl.file :
        j < k => jl.file[j].iterations_done < jl.file[k].iterations_done

\* the cache holds the rows from the inner logger's length to the end
CacheIsTail ==
    jl.local_cache =
        [k \in 1..(LogLen(jl) - InnerLoggerLen(jl)) |->
            InnerLoggerLen(jl) + k - 1]

\* C30: after any sequence of reads and the exit of the context (and no
\* flush called by the user), every
\* record written to the inner logger carries the time index of its row as
\* iterations_done, the records are in increasing order, and the rows in
\* local_cache are those from the inner logger's length to len(log) - 1.
C30_RecordsIndexed ==
    ReadsAndExitOnly => (RecordsIndexed /\ RecordsIncreasing /\ CacheIsTail)

----------------------------------------------------------------------------
(* Properties of the candidate costs of BeamSearch.search *)

\* C25: for a finished hypothesis the candidate cost in the end-symbol
\* column is its cumulative cost and every other column is inf, whatever the
\* log-probability computer returns for it, inf included; the candidate
\* costs, the cumulative costs and the chosen costs never hold NaN.
C25_NoNaN ==
    /\ pc \in {"loop", "done"} => \A j \in Hyps : costs[j] # NaN
    /\ (pc = "loop" /\ LoopContinues) =>
          \A logprobs \in LogprobMatrices(ZeroProbLogprobs) :
             \A j \in Hyps : \A s \in Symbols :
                /\ NextCosts(logprobs)[j][s] # NaN
                /\ mask[j] = 0 =>
                      NextCosts(logprobs)[j][s] =
                          (IF s = eol_symbol THEN costs[j] ELSE Inf)
----------------------------------------------------------------------------
(* Ties in BeamSearch._smallest *)

\* the flattened (row-major) index of the a-th returned candidate
SmFlatIndex(a) == sm_result.rows[a] * sm_cols + sm_result.cols[a]

\* the flattened indexes _smallest could choose from
SmFlatDomain == 0..(FlatLen(sm_rows, sm_cols, sm_first) - 1)

\* C26: among candidates of equal cost _smallest selects those of lower
\* flattened index, and returns tied selected candidates in increasing
\* flattened index order.
C26_TiesByIndex ==
    sm_pc = "done" =>
        /\ \A a, b \in 0..(sm_k - 1) :
              (a < b /\ sm_result.values[a] = sm_result.values[b])
                  => SmFlatIndex(a) < SmFlatIndex(b)
        /\ \A a \in 0..(sm_k - 1) :
              \A f \in SmFlatDomain \ {SmFlatIndex(b) : b \in 0..(sm_k - 1)} :
                 sm_matrix[f \div sm_cols][f % sm_cols] = sm_result.values[a]
                     => SmFlatIndex(a) < f
----------------------------------------------------------------------------
(* The sources of the readout in evaluate and in generate *)

\* the names given to readout.readout and to the glimpse computation at
\* time step t of the last evaluation
EvReadoutNames(t) == DOMAIN ev_readouts[t].args
EvGlimpseNames(t) ==
    UNION {DOMAIN ev_glimpses[t][n].args : n \in DOMAIN ev_glimpses[t]}

\* the same names in the last generation step
GenReadoutNames == DOMAIN RetReadout.args
GenGlimpseNames == UNION {DOMAIN g.args : g \in RetGlimpses}

\* an evaluation and a generation step of one generator have both been made
BothMade == ReadoutsComputed /\ g_step >= 1

\* C27: for every generator configuration, one with a language model
\* included, the names given to readout.readout and to the glimpse
\* computation in evaluate are those given in generate.
C27_SameSources ==
    BothMade =>
        \A t \in Times(ev_outputs) :
            /\ EvReadoutNames(t) = GenReadoutNames
            /\ EvGlimpseNames(t) = GenGlimpseNames
----------------------------------------------------------------------------
(* The probabilities SoftmaxEmitter.cost selects *)

\* the last call was SoftmaxEmitter.cost and it returned a cost
SoftmaxCostReturned ==
    /\ em_call.emitter = "softmax"
    /\ em_call.method = "cost"
    /\ em_call.result.ok

\* probs.shape[-1] of the last call
CallMaxOutput == em_call.readouts.shape[Len(em_call.readouts.shape)]

\* the probability whose negative logarithm is the cost of output n
Scored(n) == em_call.result.value.data[n + 1].neg_log

\* C29: the cost of output position n holding category v is taken from row
\* n of the probabilities, column v when 0 <= v < max_output; a value
\* outside that range is never scored against the row of another position.
C29_ScoredInRow ==
    SoftmaxCostReturned =>
        \A n \in 0..(Len(em_call.outputs.data) - 1) :
            /\ Scored(n).row = n
            /\ em_call.outputs.data[n + 1] < CallMaxOutput =>
                   Scored(n).category = em_call.outputs.data[n + 1]
----------------------------------------------------------------------------
(* The lineage of the beam positions *)

\* column j of all_outputs without the seeded row
History(j) == [t \in 1..(Len(all_outputs) - 1) |-> all_outputs[t + 1][j]]

\* no end symbol among the outputs st: the lineage is still active
StillActive(st) == \A t \in DOMAIN st : st[t] # eol_symbol

RECURSIVE LineageCost(_, _)
\* the sum of the negative log-probabilities of the outputs st, each in the
\* state of the outputs before it, over the steps at which the lineage was
\* active
LineageCost(kind, st) ==
    IF st = <<>> THEN 0
    ELSE LET before == SubSeq(st, 1, Len(st) - 1)
         IN FAdd(LineageCost(kind, before),
                 IF StillActive(before)
                 THEN Logprob(kind, before, st[Len(st)])
                 ELSE 0)

\* position j after an iteration: the history of the parent followed by the
\* chosen output, the state computed from the parent's state and the chosen
\* output
ExtendsParent(j) ==
    /\ all_outputs'[Len(all_outputs')][j] = outputs'[j]
    /\ \A t \in 1..Len(all_outputs) :
          all_outputs'[t][j] = all_outputs[t][indexes'[j]]
    /\ states'[j] = Append(states[indexes'[j]], outputs'[j])

\* C28: after every iteration, column j of all_outputs is the history of
\* the parent position j was selected from followed by the chosen output,
\* its state is computed from that parent's state and the chosen output, and
\* costs[j] is the sum of the negative log-probabilities of the outputs of
\* its history over the steps at which the lineage was active.
\* (A generator that gives a symbol probability 0 leaves fewer than
\* beam_size finite candidates; a finished lineage is then continued by a
\* symbol other than the end symbol at cost inf.)
C28_Lineage ==
    /\ [][(pc = "loop" /\ i' = i + 1) => \A j \in Hyps : ExtendsParent(j)]_vars
    /\ [](Iterated =>
            \A j \in Hyps :
               /\ states[j] = History(j)
               /\ costs[j] = LineageCost(generator, History(j))
               /\ mask[j] = (IF StillActive(History(j)) THEN 1 ELSE 0))

\* the same on generators that give every symbol a probability above 0
LineageWhenFinite ==
    /\ [][(pc = "loop" /\ i' = i + 1) => \A j \in Hyps : ExtendsParent(j)]_vars
    /\ [](Iterated /\ generator # "certain" =>
            \A j \in Hyps :
               /\ states[j] = History(j)
               /\ costs[j] = LineageCost(generator, History(j))
               /\ mask[j] = (IF StillActive(History(j)) THEN 1 ELSE 0))

\* a finished lineage continued by a symbol other than the end symbol
FinishedContinued ==
    /\ Iterated
    /\ \E j \in Hyps : parent_mask[j] = 0 /\ outputs[j] # eol_symbol

\* two iterations made: a lineage that ended in the first one was carried
\* through the second next to an active lineage that has a cost and did not
\* stay at its position
C28_Witness ==
    /\ Iterated
    /\ i >= 2
    /\ \E j \in Hyps : parent_mask[j] = 0 /\ ~StillActive(History(j))
    /\ \E j \in Hyps :
          /\ mask[j] = 1
          /\ costs[j] > 0
          /\ indexes[j] # j
====
